---- MODULE Spec2Model ----
(***************************************************************************)
(* A model of the task execution orchestrator of WebAgentAA                *)
(* (src/task_runner_utils.py): mask_sensitive_data, run_task,              *)
(* run_tasks_sequential and run_tasks_parallel, read against the           *)
(* configuration module src/config.py.                                     *)
(*                                                                         *)
(* Text is a sequence of one-character strings.  Python's None is the      *)
(* empty tuple and a present value x is <<x>> wherever a field is          *)
(* optional.  A log line is a record of its fixed format part (tag) and    *)
(* the text interpolated into it; the wall-clock prefix of a log line is   *)
(* left out, as nothing in the code reads it back.                         *)
(***************************************************************************)
EXTENDS Integers, Sequences, FiniteSets, TLC

(***************************************************************************)
(* Bounds of the model.                                                    *)
(***************************************************************************)
MaxTasks == 3
MaxParallel == 2
MaxRows == 3

(***************************************************************************)
(* Characters.                                                             *)
(***************************************************************************)
UpperLetters ==
    {"A","B","C","D","E","F","G","H","I","J","K","L","M",
     "N","O","P","Q","R","S","T","U","V","W","X","Y","Z"}

LowerLetters ==
    {"a","b","c","d","e","f","g","h","i","j","k","l","m",
     "n","o","p","q","r","s","t","u","v","w","x","y","z"}

DigitChars == {"0","1","2","3","4","5","6","7","8","9"}

\* str.lower() on one character
LowerChar(c) ==
    CASE c = "A" -> "a" [] c = "B" -> "b" [] c = "C" -> "c" [] c = "D" -> "d"
      [] c = "E" -> "e" [] c = "F" -> "f" [] c = "G" -> "g" [] c = "H" -> "h"
      [] c = "I" -> "i" [] c = "J" -> "j" [] c = "K" -> "k" [] c = "L" -> "l"
      [] c = "M" -> "m" [] c = "N" -> "n" [] c = "O" -> "o" [] c = "P" -> "p"
      [] c = "Q" -> "q" [] c = "R" -> "r" [] c = "S" -> "s" [] c = "T" -> "t"
      [] c = "U" -> "u" [] c = "V" -> "v" [] c = "W" -> "w" [] c = "X" -> "x"
      [] c = "Y" -> "y" [] c = "Z" -> "z" [] OTHER -> c

\* Lower that leaves the letter case as it is
Lower_AsIs(t) == t

\* str.lower()
Lower(t) == [j \in 1..Len(t) |-> LowerChar(t[j])]

\* the regular expression class \w
IsWordChar(c) == c \in UpperLetters \cup LowerLetters \cup DigitChars \cup {"_"}

\* the regular expression class \s
IsSpace(c) == c \in {" ", "\t", "\n", "\r", "\f"}

\* s occurs in t starting at position p
IsAt(t, p, s) ==
    /\ p >= 1
    /\ p + Len(s) - 1 <= Len(t)
    /\ \A j \in 1..Len(s) : t[p + j - 1] = s[j]

\* s occurs at p, letter case ignored (re.IGNORECASE)
IsAtNoCase(t, p, s) ==
    /\ p >= 1
    /\ p + Len(s) - 1 <= Len(t)
    /\ \A j \in 1..Len(s) : LowerChar(t[p + j - 1]) = LowerChar(s[j])

\* Python's `s in t`
Contains(t, s) == \E p \in 1..(Len(t) - Len(s) + 1) : IsAt(t, p, s)

\* the least element of a set of positions, or 0 when there is none
First(S) == IF S = {} THEN 0 ELSE CHOOSE k \in S : \A j \in S : k <= j

\* t from position p to its end
Rest(t, p) == SubSeq(t, p, Len(t))

\* Python's t.replace(s, r) for a non-empty s: leftmost, non-overlapping;
\* q is the next occurrence of s from p on
RECURSIVE ReplaceFrom(_, _, _, _)
ReplaceNext(t, p, s, r, q) ==
    IF q = 0 THEN Rest(t, p)
    ELSE SubSeq(t, p, q - 1) \o r \o ReplaceFrom(t, q + Len(s), s, r)

ReplaceFrom(t, p, s, r) ==
    ReplaceNext(t, p, s, r, First({q \in p..Len(t) : IsAt(t, q, s)}))

Replace(t, s, r) == ReplaceFrom(t, 1, s, r)

\* the first position >= p that holds no whitespace (\s* is greedy)
SkipSpace(t, p) == First({q \in p..(Len(t) + 1) : q > Len(t) \/ ~IsSpace(t[q])})

\* the first position >= p that holds no [\w-] character
SkipToken(t, p) ==
    First({q \in p..(Len(t) + 1) : q > Len(t) \/ ~(IsWordChar(t[q]) \/ t[q] = "-")})

\* the first position >= p that holds a double quote, or 0
FindQuote(t, p) == First({q \in p..Len(t) : t[q] = "\""})

(***************************************************************************)
(* The redaction tokens and literals of mask_sensitive_data.               *)
(***************************************************************************)
MaskedAccessKey ==
    <<"*","*","*","M","A","S","K","E","D","_","A","C","C","E","S","S",
      "_","K","E","Y","*","*","*">>

MaskedApiKey ==
    <<"*","*","*","M","A","S","K","E","D","_","A","P","I","_","K","E","Y",
      "*","*","*">>

AccessKeyName == <<"\"","a","c","c","e","s","s","K","e","y","\"">>

AccessKeyRepl ==
    AccessKeyName \o <<":"," ","\"","*","*","*","M","A","S","K","E","D",
                       "*","*","*","\"">>

ApiKeyRepl == <<":"," ","*","*","*","M","A","S","K","E","D","*","*","*">>

\* the {20,} of the API key pattern
MinApiKeyLen == 20

\* "accessKey"\s*:\s*"[^"]*" matched at p: the position after the match, or 0
MatchAccessKey(t, p) ==
    IF ~IsAt(t, p, AccessKeyName) THEN 0
    ELSE LET c == SkipSpace(t, p + Len(AccessKeyName)) IN
         IF ~(c <= Len(t) /\ t[c] = ":") THEN 0
         ELSE LET q == SkipSpace(t, c + 1) IN
              IF ~(q <= Len(t) /\ t[q] = "\"") THEN 0
              ELSE LET e == FindQuote(t, q + 1) IN
                   IF e = 0 THEN 0 ELSE e + 1

\* re.sub of the "accessKey" pattern from position p on; q is the next
\* position from p on where the pattern matches
RECURSIVE SubAccessKeyFrom(_, _)
SubAccessKeyNext(t, p, q) ==
    IF q = 0 THEN Rest(t, p)
    ELSE SubSeq(t, p, q - 1) \o AccessKeyRepl \o SubAccessKeyFrom(t, MatchAccessKey(t, q))

SubAccessKeyFrom(t, p) ==
    SubAccessKeyNext(t, p, First({q \in p..Len(t) : MatchAccessKey(t, q) # 0}))

\* the length of group 1, (api[_-]?key|apikey), matched at p, or 0
ApiKeyNameLen(t, p) ==
    IF ~IsAtNoCase(t, p, <<"a","p","i">>) THEN 0
    ELSE IF p + 3 <= Len(t) /\ t[p + 3] \in {"_", "-"}
              /\ IsAtNoCase(t, p + 4, <<"k","e","y">>) THEN 7
    ELSE IF IsAtNoCase(t, p + 3, <<"k","e","y">>) THEN 6
    ELSE 0

\* the API key pattern matched at p: the position after the match, or 0
MatchApiKey(t, p) ==
    LET g == ApiKeyNameLen(t, p) IN
    IF g = 0 THEN 0
    ELSE LET c == SkipSpace(t, p + g) IN
         IF ~(c <= Len(t) /\ t[c] \in {":", "="}) THEN 0
         ELSE LET q == SkipSpace(t, c + 1)
                  v == IF q <= Len(t) /\ t[q] \in {"\"", "'"} THEN q + 1 ELSE q
                  e == SkipToken(t, v)
              IN IF e - v < MinApiKeyLen THEN 0
                 ELSE IF e <= Len(t) /\ t[e] \in {"\"", "'"} THEN e + 1 ELSE e

\* re.sub of the API key pattern from position p on: \1: ***MASKED***; q is
\* the next position from p on where the pattern matches
RECURSIVE SubApiKeyFrom(_, _)
SubApiKeyNext(t, p, q) ==
    IF q = 0 THEN Rest(t, p)
    ELSE SubSeq(t, p, q + ApiKeyNameLen(t, q) - 1) \o ApiKeyRepl
         \o SubApiKeyFrom(t, MatchApiKey(t, q))

SubApiKeyFrom(t, p) ==
    SubApiKeyNext(t, p, First({q \in p..Len(t) : MatchApiKey(t, q) # 0}))

(***************************************************************************)
(* The configuration module.  has_lt says whether the module defines the   *)
(* attributes USE_LAMBDATEST, LT_USERNAME and LT_ACCESS_KEY that            *)
(* task_runner_utils.py reads: src/config.py defines none of them, so      *)
(* reading one raises AttributeError.                                      *)
(***************************************************************************)
LtKey == <<"s","k","1">>
LtUser == <<"u">>
GoogleKey == <<"g","k","9">>

\* src/config.py as it is in the repository
ShippedConfig(mp) ==
    [has_lt |-> FALSE, USE_LAMBDATEST |-> FALSE, LT_USERNAME |-> <<>>,
     LT_ACCESS_KEY |-> <<>>, GOOGLE_API_KEY |-> <<>>,
     MAX_PARALLEL_AGENTS |-> mp]

\* a configuration module that also defines the three LambdaTest attributes
FullConfig(use, user, key, mp) ==
    [has_lt |-> TRUE, USE_LAMBDATEST |-> use, LT_USERNAME |-> user,
     LT_ACCESS_KEY |-> key, GOOGLE_API_KEY |-> GoogleKey,
     MAX_PARALLEL_AGENTS |-> mp]

(***************************************************************************)
(* mask_sensitive_data.  MaskRaises: the call ends in AttributeError       *)
(* (config.LT_ACCESS_KEY is read for every non-empty text).                *)
(***************************************************************************)
MaskRaises(c, text) == text # <<>> /\ ~c.has_lt

MaskLtKey(c, text) ==
    IF c.LT_ACCESS_KEY # <<>> /\ Contains(text, c.LT_ACCESS_KEY)
    THEN Replace(text, c.LT_ACCESS_KEY, MaskedAccessKey)
    ELSE text

MaskGoogleKey(c, text) ==
    IF c.GOOGLE_API_KEY # <<>> /\ Contains(text, c.GOOGLE_API_KEY)
    THEN Replace(text, c.GOOGLE_API_KEY, MaskedApiKey)
    ELSE text

mask_sensitive_data(c, text) ==
    IF text = <<>> THEN text
    ELSE MaskGoogleKey(c, SubApiKeyFrom(SubAccessKeyFrom(MaskLtKey(c, text), 1), 1))

(***************************************************************************)
(* Literals of run_task.                                                   *)
(***************************************************************************)
failure_indicators ==
    << <<"u","n","a","b","l","e"," ","t","o">>,
       <<"c","o","u","l","d"," ","n","o","t">>,
       <<"f","a","i","l","e","d"," ","t","o">>,
       <<"d","i","d"," ","n","o","t">>,
       <<"c","a","n","n","o","t">>,
       <<"w","a","s"," ","n","o","t"," ","a","b","l","e">>,
       <<"s","t","u","c","k"," ","a","t">>,
       <<"c","o","n","s","i","s","t","e","n","t","l","y"," ","f","a","i","l","e","d">>,
       <<"d","e","s","p","i","t","e"," ","n","u","m","e","r","o","u","s"," ","a","t","t","e","m","p","t","s">>,
       <<"h","o","w","e","v","e","r",",">>,
       <<"b","u","t"," ">>,
       <<"e","x","c","e","p","t"," ">>,
       <<"u","n","f","o","r","t","u","n","a","t","e","l","y">>,
       <<"u","n","s","u","c","c","e","s","s","f","u","l","l","y">> >>

ClickedWord == <<"C","l","i","c","k","e","d">>
ScrolledWord == <<"S","c","r","o","l","l","e","d">>
NavigatedWord == <<"N","a","v","i","g","a","t","e","d">>
NavigateWord == <<"N","a","v","i","g","a","t","e">>
WaitedWord == <<"W","a","i","t","e","d">>
SwitchedWord == <<"S","w","i","t","c","h","e","d">>
InputWord == <<"I","n","p","u","t">>
TypedWord == <<"T","y","p","e","d">>
ModelWord == <<"M","o","d","e","l">>
ActionWord == <<"A","c","t","i","o","n">>
ListClass == <<"l","i","s","t">>
NA == <<"N","/","A">>
TaskNotCompleted ==
    <<"T","a","s","k"," ","n","o","t"," ","c","o","m","p","l","e","t","e","d">>

\* str(e) of the ValueError of line 79
CredsMessage ==
    <<"L","T","_","U","S","E","R","N","A","M","E"," ","a","n","d"," ",
      "L","T","_","A","C","C","E","S","S","_","K","E","Y"," ","m","u","s","t",
      " ","b","e"," ","s","e","t"," ","w","h","e","n"," ","U","S","E","_",
      "L","A","M","B","D","A","T","E","S","T"," ","i","s"," ","t","r","u","e">>

\* str(e) of the AttributeError that reading config.USE_LAMBDATEST raises
NoAttrMessage ==
    <<"m","o","d","u","l","e"," ","'","c","o","n","f","i","g","'"," ",
      "h","a","s"," ","n","o"," ","a","t","t","r","i","b","u","t","e"," ",
      "'","U","S","E","_","L","A","M","B","D","A","T","E","S","T","'">>

\* str(e) of the AttributeError that reading config.LT_ACCESS_KEY raises
NoKeyAttrMessage ==
    <<"m","o","d","u","l","e"," ","'","c","o","n","f","i","g","'"," ",
      "h","a","s"," ","n","o"," ","a","t","t","r","i","b","u","t","e"," ",
      "'","L","T","_","A","C","C","E","S","S","_","K","E","Y","'">>

\* str(e) of the AttributeError of None.lower() (line 229)
NoneLowerMessage ==
    <<"'","N","o","n","e","T","y","p","e","'"," ","o","b","j","e","c","t",
      " ","h","a","s"," ","n","o"," ","a","t","t","r","i","b","u","t","e",
      " ","'","l","o","w","e","r","'">>

None == <<>>
Some(x) == <<x>>

\* one entry of logs: the format, the number and the text put into it
Log(tag, num, text) == [tag |-> tag, num |-> num, text |-> text]

\* ResultRecord with the scenario name stored as the prompt as well
ResultRecord_PromptFromScenario(task, task_number, success, error, logs, agent_steps) ==
    [kind |-> "result", task_number |-> task_number,
     scenario |-> task.scenario_name, category |-> task.category,
     priority |-> task.priority, prompt |-> task.scenario_name,
     success |-> success, error |-> error, logs |-> logs,
     agent_steps |-> agent_steps, type |-> ""]

\* what run_task returns (kind "result") or raises (kind "exc")
ResultRecord(task, task_number, success, error, logs, agent_steps) ==
    [kind |-> "result", task_number |-> task_number,
     scenario |-> task.scenario_name, category |-> task.category,
     priority |-> task.priority, prompt |-> task.prompt_text,
     success |-> success, error |-> error, logs |-> logs,
     agent_steps |-> agent_steps, type |-> ""]

Raised(type, msg) ==
    [kind |-> "exc", task_number |-> 0, scenario |-> <<>>, category |-> <<>>,
     priority |-> <<>>, prompt |-> <<>>, success |-> FALSE,
     error |-> Some(msg), logs |-> <<>>, agent_steps |-> <<>>, type |-> type]

NoValue ==
    [kind |-> "none", task_number |-> 0, scenario |-> <<>>, category |-> <<>>,
     priority |-> <<>>, prompt |-> <<>>, success |-> FALSE,
     error |-> None, logs |-> <<>>, agent_steps |-> <<>>, type |-> ""]

(***************************************************************************)
(* The except clause of run_task (lines 285-306): the masked message is    *)
(* logged and stored and the step list is dropped; the clause itself       *)
(* raises when mask_sensitive_data does.                                   *)
(***************************************************************************)
\* ExceptResult with str(e) stored as it is and only the log line masked
ExceptResult_RawError(c, task, task_number, logs, msg) ==
    IF MaskRaises(c, msg) THEN Raised("AttributeError", NoKeyAttrMessage)
    ELSE ResultRecord(task, task_number, FALSE, Some(msg),
                      logs \o << Log("ERROR", 0, mask_sensitive_data(c, msg)),
                                 Log("Status: FAILED - Exception occurred", 0, <<>>) >>,
                      <<>>)

ExceptResult(c, task, task_number, logs, msg) ==
    IF MaskRaises(c, msg) THEN Raised("AttributeError", NoKeyAttrMessage)
    ELSE LET error_message == mask_sensitive_data(c, msg) IN
         ResultRecord(task, task_number, FALSE, Some(error_message),
                      logs \o << Log("ERROR", 0, error_message),
                                 Log("Status: FAILED - Exception occurred", 0, <<>>) >>,
                      <<>>)

(***************************************************************************)
(* The history loop (lines 141-216).                                       *)
(***************************************************************************)
\* an action object of a step: None, a list of action objects, or an object
\* with a class name, an optional root object and the text of its fields
NoAction == [kind |-> "None", items |-> <<>>, cls |-> <<>>, root |-> <<>>, details |-> <<>>]
ActionList(items) ==
    [kind |-> "list", items |-> items, cls |-> ListClass, root |-> <<>>, details |-> <<>>]
ActionObj(cls, root, details) ==
    [kind |-> "obj", items |-> <<>>, cls |-> cls, root |-> root, details |-> details]

\* .replace('Model', '').replace('Action', '')
StripLabel(name) ==
    LET a == IF Contains(name, ModelWord) THEN Replace(name, ModelWord, <<>>) ELSE name
    IN IF Contains(a, ActionWord) THEN Replace(a, ActionWord, <<>>) ELSE a

\* re.search(r'\bW\b', t) for a word W of word characters
HasWord(t, w) ==
    \E p \in 1..(Len(t) - Len(w) + 1) :
        /\ IsAt(t, p, w)
        /\ (p = 1 \/ ~IsWordChar(t[p - 1]))
        /\ (p + Len(w) > Len(t) \/ ~IsWordChar(t[p + Len(w)]))

\* lines 150-151: the first element of a non-empty list of actions
FirstAction(step) ==
    LET a == step.action[1] IN
    IF a.kind = "list" /\ Len(a.items) > 0 THEN a.items[1] ELSE a

\* lines 143-175: the name taken from the action payload
PayloadName(step) ==
    IF step.action = None THEN NA
    ELSE LET a == FirstAction(step) IN
         IF a.kind = "None" THEN NA
         ELSE IF a.root # None THEN StripLabel(a.root[1].cls)
         ELSE StripLabel(a.cls)

\* lines 144-170: action_details
ActionDetails(step) ==
    IF step.action = None THEN <<>>
    ELSE LET a == FirstAction(step) IN
         IF a.kind = "None" THEN <<>>
         ELSE IF a.root # None THEN a.root[1].details
         ELSE a.details

\* lines 178-193: the keyword scan of the result text
KeywordName(t) ==
    IF HasWord(t, ClickedWord) THEN <<"C","l","i","c","k">>
    ELSE IF HasWord(t, ScrolledWord) THEN <<"S","c","r","o","l","l">>
    ELSE IF HasWord(t, NavigatedWord) \/ HasWord(t, NavigateWord) THEN NavigateWord
    ELSE IF HasWord(t, WaitedWord) THEN <<"W","a","i","t">>
    ELSE IF HasWord(t, SwitchedWord) THEN <<"S","w","i","t","c","h","T","a","b">>
    ELSE IF HasWord(t, InputWord) \/ HasWord(t, TypedWord) THEN InputWord
    ELSE NA

ActionName(step) ==
    LET n == PayloadName(step) IN
    IF n = NA /\ step.result # None THEN KeywordName(step.result[1]) ELSE n

\* the texts of a step that run_task masks (lines 196-204)
MaskedTexts(step) ==
    (IF step.thought # None THEN {step.thought[1]}
     ELSE IF step.model_output # None THEN {step.model_output[1]} ELSE {})
    \cup (IF step.result # None THEN {step.result[1]} ELSE {})
    \cup (IF step.model_output # None THEN {step.model_output[1]} ELSE {})

\* processing the step raises: a masking call raises
StepRaises(c, step) == \E t \in MaskedTexts(step) : MaskRaises(c, t)

\* StepInfo with the steps numbered from 0, as enumerate(history) would
StepInfo_ZeroBased(c, step, i) ==
    [step_number |-> i - 1,
     action |-> ActionName(step),
     action_details |-> ActionDetails(step),
     thought |-> IF step.thought # None THEN mask_sensitive_data(c, step.thought[1])
                 ELSE IF step.model_output # None
                      THEN mask_sensitive_data(c, step.model_output[1])
                      ELSE <<>>,
     result |-> IF step.result # None THEN mask_sensitive_data(c, step.result[1]) ELSE NA,
     model_output |-> IF step.model_output # None
                      THEN mask_sensitive_data(c, step.model_output[1]) ELSE <<>>,
     screenshot |-> None]

\* step_info (lines 206-214)
StepInfo(c, step, i) ==
    [step_number |-> i,
     action |-> ActionName(step),
     action_details |-> ActionDetails(step),
     thought |-> IF step.thought # None THEN mask_sensitive_data(c, step.thought[1])
                 ELSE IF step.model_output # None
                      THEN mask_sensitive_data(c, step.model_output[1])
                      ELSE <<>>,
     result |-> IF step.result # None THEN mask_sensitive_data(c, step.result[1]) ELSE NA,
     model_output |-> IF step.model_output # None
                      THEN mask_sensitive_data(c, step.model_output[1]) ELSE <<>>,
     screenshot |-> None]

(***************************************************************************)
(* run_task from the return of agent.run() to its return statement         *)
(* (lines 135-306).  o is what the session did:                            *)
(*   raises, msg     agent.run() raised Exception(msg)                     *)
(*   none            the returned object is falsy                          *)
(*   has_history     it has an attribute history                           *)
(*   history         the step objects                                      *)
(*   fault_at        the step whose processing raises Exception(msg), or 0 *)
(*   is_done         is_done()                                             *)
(*   final_kind      "absent": no attribute final_result; "none":          *)
(*                   final_result() is None; "text": it is final_text      *)
(***************************************************************************)
WalkedHistory(o) == IF ~o.none /\ o.has_history THEN o.history ELSE <<>>

\* the first step whose processing raises, or 0
FirstBad(bad) == IF bad = {} THEN 0 ELSE CHOOSE k \in bad : \A j \in bad : k <= j

FirstBadStep(c, o, h) ==
    FirstBad({k \in 1..Len(h) : k = o.fault_at \/ StepRaises(c, h[k])})

StepLogs(h, m) == [k \in 1..m |-> Log("Step", k, ActionName(h[k]))]

NoneText == <<"N","o","n","e">>

\* the text of f"{result.final_result()}"
FinalText(o) == IF o.final_kind = "none" THEN NoneText ELSE o.final_text

\* any(indicator in final_msg for indicator in failure_indicators)
has_failure_indicator(final_msg) ==
    \E k \in 1..Len(failure_indicators) : Contains(final_msg, failure_indicators[k])

\* what the try block came to: an exception with message msg, or a return,
\* with the values of task_success, logs and agent_steps at that point
TryOut(raised, msg, logs, success, agent_steps) ==
    [raised |-> raised, msg |-> msg, logs |-> logs, success |-> success,
     agent_steps |-> agent_steps]

\* line 225
IsDone(o) == ~o.none /\ o.is_done

\* `result and hasattr(result, 'final_result')`
HasFinal(o) == ~o.none /\ o.final_kind # "absent"

\* lines 228-253: done, but the final message holds a failure indicator
Downgraded(o) ==
    /\ IsDone(o)
    /\ HasFinal(o)
    /\ o.final_kind = "text"
    /\ has_failure_indicator(Lower(o.final_text))

FinalLine(o) == IF HasFinal(o) THEN << Log("Final result", 0, FinalText(o)) >> ELSE <<>>

\* lines 252-284
StatusOut(o, logs, agent_steps, downgraded) ==
    TryOut(FALSE, <<>>,
           logs \o (IF downgraded
                    THEN << Log("Final result", 0, FinalText(o)),
                            Log("Status: FAILED - Task reported completion but final message indicates failure", 0, <<>>) >>
                    ELSE <<>>)
                \o FinalLine(o)
                \o << IF IsDone(o) /\ ~downgraded
                      THEN Log("Status: PASSED", 0, <<>>)
                      ELSE Log("Status: FAILED - Task not completed", 0, <<>>) >>,
           IsDone(o) /\ ~downgraded, agent_steps)

\* lines 224-284; final_result().lower() raises on None
Interpret(o, logs, agent_steps) ==
    IF IsDone(o) /\ HasFinal(o) /\ o.final_kind = "none"
    THEN TryOut(TRUE, NoneLowerMessage, logs, FALSE, agent_steps)
    ELSE StatusOut(o, logs, agent_steps, Downgraded(o))

\* lines 138-222, with h the history walked and bad its first bad step
HistoryThen(c, o, logs, h, bad) ==
    IF bad # 0
    THEN TryOut(TRUE, IF bad = o.fault_at THEN o.msg ELSE NoKeyAttrMessage,
                logs \o StepLogs(h, bad - 1), FALSE,
                [k \in 1..(bad - 1) |-> StepInfo(c, h[k], k)])
    ELSE Interpret(o,
                   logs \o StepLogs(h, Len(h))
                        \o << Log("Test execution completed", 0, <<>>),
                              Log("Duration", 0, <<>>) >>,
                   [k \in 1..Len(h) |-> StepInfo(c, h[k], k)])

\* lines 135-284
TryRun(c, o, logs) ==
    IF o.raises THEN TryOut(TRUE, o.msg, logs, FALSE, <<>>)
    ELSE HistoryThen(c, o, logs, WalkedHistory(o), FirstBadStep(c, o, WalkedHistory(o)))

\* Finish with 'Task not completed' stored whatever task_success is
Finish_ErrorAlways(c, task, task_number, t) ==
    IF t.raised THEN ExceptResult(c, task, task_number, t.logs, t.msg)
    ELSE ResultRecord(task, task_number, t.success, Some(TaskNotCompleted),
                      t.logs, t.agent_steps)

\* Finish with the steps of a task that was not completed left out
Finish_DropSteps(c, task, task_number, t) ==
    IF t.raised THEN ExceptResult(c, task, task_number, t.logs, t.msg)
    ELSE ResultRecord(task, task_number, t.success,
                      IF t.success THEN None ELSE Some(TaskNotCompleted),
                      t.logs, IF t.success THEN t.agent_steps ELSE <<>>)

\* Finish with the except clause handing back the steps collected so far
Finish_KeepSteps(c, task, task_number, t) ==
    IF t.raised
    THEN IF MaskRaises(c, t.msg) THEN Raised("AttributeError", NoKeyAttrMessage)
         ELSE [ExceptResult(c, task, task_number, t.logs, t.msg)
                   EXCEPT !.agent_steps = t.agent_steps]
    ELSE ResultRecord(task, task_number, t.success,
                      IF t.success THEN None ELSE Some(TaskNotCompleted),
                      t.logs, t.agent_steps)

\* the return statement of the try block (lines 274-284), or the except clause
Finish(c, task, task_number, t) ==
    IF t.raised THEN ExceptResult(c, task, task_number, t.logs, t.msg)
    ELSE ResultRecord(task, task_number, t.success,
                      IF t.success THEN None ELSE Some(TaskNotCompleted),
                      t.logs, t.agent_steps)

(***************************************************************************)
(* run_task from its start to the first suspension (lines 63-135).  a is   *)
(* what the constructors did: cdp is Browser(headless=False, cdp_url=...)  *)
(* ("ok", "TypeError" or "raise"), local is Browser(headless=headless) and *)
(* agent is Agent(...) ("ok" or "raise"); msg is the message raised.       *)
(* The outcome: the browser variable, the logs, and whether the try block  *)
(* got to agent.run() or raised an exception with message msg.             *)
(***************************************************************************)
StartOut(browser, logs, running, msg) ==
    [browser |-> browser, logs |-> logs, running |-> running, msg |-> msg]

\* lines 128-133
AfterBrowser(task, logs, a) ==
    IF a.agent = "raise" THEN StartOut("open", logs, FALSE, a.msg)
    ELSE StartOut("open",
                  logs \o << Log("Test execution started", 0, <<>>),
                             Log("Scenario", 0, task.scenario_name),
                             Log("Category", 0, task.category),
                             Log("Priority", 0, task.priority) >>,
                  TRUE, <<>>)

\* lines 81-121
LambdaTestStart(task, a) ==
    IF a.cdp = "ok"
    THEN AfterBrowser(task,
                      << Log("Initializing LambdaTest remote execution", 0, <<>>),
                         Log("Connected to LambdaTest", 0, <<>>) >>, a)
    ELSE IF a.cdp = "TypeError" /\ a.local = "ok"
    THEN AfterBrowser(task,
                      << Log("Initializing LambdaTest remote execution", 0, <<>>),
                         Log("WARNING: browser-use doesn't support remote execution", 0, <<>>),
                         Log("Falling back to local browser execution", 0, <<>>) >>, a)
    ELSE IF a.cdp = "TypeError"
    THEN StartOut("None",
                  << Log("Initializing LambdaTest remote execution", 0, <<>>),
                     Log("WARNING: browser-use doesn't support remote execution", 0, <<>>),
                     Log("Falling back to local browser execution", 0, <<>>) >>,
                  FALSE, a.msg)
    ELSE StartOut("None", << Log("Initializing LambdaTest remote execution", 0, <<>>) >>,
                  FALSE, a.msg)

\* TryStart without the test of the credentials at lines 78-79
TryStart_NoCredsCheck(c, task, a) ==
    IF ~c.has_lt THEN StartOut("None", <<>>, FALSE, NoAttrMessage)
    ELSE IF c.USE_LAMBDATEST THEN LambdaTestStart(task, a)
    ELSE IF a.local = "ok"
    THEN AfterBrowser(task, << Log("Using local browser execution", 0, <<>>) >>, a)
    ELSE StartOut("None", <<>>, FALSE, a.msg)

\* lines 67-135
TryStart(c, task, a) ==
    IF ~c.has_lt THEN StartOut("None", <<>>, FALSE, NoAttrMessage)
    ELSE IF c.USE_LAMBDATEST /\ (c.LT_USERNAME = <<>> \/ c.LT_ACCESS_KEY = <<>>)
    THEN StartOut("None", <<>>, FALSE, CredsMessage)
    ELSE IF c.USE_LAMBDATEST THEN LambdaTestStart(task, a)
    ELSE IF a.local = "ok"
    THEN AfterBrowser(task, << Log("Using local browser execution", 0, <<>>) >>, a)
    ELSE StartOut("None", <<>>, FALSE, a.msg)

(***************************************************************************)
(* The finally clause of run_task (lines 307-314): what the call returns   *)
(* or raises once browser.stop() has returned or raised Exception(msg).    *)
(***************************************************************************)
\* FinallyResult without the try/except around browser.stop()
FinallyResult_Propagates(c, v, s) ==
    IF s.raises THEN Raised("Exception", s.msg) ELSE v

FinallyResult(c, v, s) ==
    IF s.raises /\ MaskRaises(c, s.msg)
    THEN Raised("AttributeError", NoKeyAttrMessage)
    ELSE v

(***************************************************************************)
(* The inputs the model draws: configurations, task descriptors and what   *)
(* the browser, the agent and the session do.                              *)
(***************************************************************************)
\* MAX_PARALLEL_AGENTS of src/config.py
DefaultMaxParallel == 3

\* TASK_DELAY of src/config.py
DefaultTaskDelay == 5

\* the pause between two batches (line 387)
BatchPause == 2

Configs(mp) ==
    { ShippedConfig(mp),
      FullConfig(FALSE, LtUser, LtKey, mp),
      FullConfig(TRUE, LtUser, LtKey, mp),
      FullConfig(TRUE, <<>>, <<>>, mp) }

TaskDigits == <<"1","2","3","4","5","6","7","8","9">>

\* the descriptor at position i of the task list
Task(i) ==
    [scenario_name |-> <<"S", TaskDigits[i]>>,
     prompt_text |-> <<"p", TaskDigits[i]>>,
     category |-> <<"c">>,
     priority |-> <<"H">>]

Boom == <<"b","o","o","m">>
SecretBoom == <<"k","="," ">> \o LtKey

\* A call made by one of the two schedulers draws what its browser, agent
\* and session do from the short sets, which keep every way a call ends (a
\* passed Result, a failed Result, a caught exception, a teardown fault);
\* the call of run_single_task.py (mode "single") draws from the long ones.
ShortStartInputs ==
    { [cdp |-> "ok", local |-> "ok", agent |-> "ok", msg |-> <<>>],
      [cdp |-> "raise", local |-> "raise", agent |-> "ok", msg |-> Boom] }

StartInputs(m) ==
    IF m # "single" THEN ShortStartInputs
    ELSE ShortStartInputs \cup
    { [cdp |-> "TypeError", local |-> "ok", agent |-> "ok", msg |-> <<>>],
      [cdp |-> "TypeError", local |-> "raise", agent |-> "ok", msg |-> SecretBoom],
      [cdp |-> "ok", local |-> "ok", agent |-> "raise", msg |-> Boom],
      [cdp |-> "raise", local |-> "raise", agent |-> "ok", msg |-> <<>>] }

ClickStep ==
    [action |-> None, result |-> Some(ClickedWord \o <<" ">> \o LtKey),
     thought |-> None, model_output |-> None]

Outcome(raises, msg, none, history, fault_at, is_done, final_kind, final_text) ==
    [raises |-> raises, msg |-> msg, none |-> none, has_history |-> TRUE,
     history |-> history, fault_at |-> fault_at, is_done |-> is_done,
     final_kind |-> final_kind, final_text |-> final_text]

CleanFinal == <<"o","k">>
NegativeFinal == <<"U","n","a","b","l","e"," ","t","o">>
HoweverFinal == <<"o","k","."," ","H","O","W","E","V","E","R",","," ","n","o">>
SecretFinal == <<"k","e","y"," ">> \o LtKey

\* a step whose action list holds one action object with a text field
InputStep ==
    [action |-> Some(ActionList(<< ActionObj(InputWord \o ActionWord, None,
                                             <<"t","e","x","t",":"," ">> \o LtKey) >>)),
     result |-> Some(TypedWord), thought |-> Some(<<"t">> \o LtKey),
     model_output |-> None]

\* a step whose action is an empty list and whose result names a click
EmptyListStep ==
    [action |-> Some(ActionList(<<>>)), result |-> Some(ClickedWord),
     thought |-> None, model_output |-> None]

ShortRunOutcomes ==
    { Outcome(TRUE, Boom, FALSE, <<>>, 0, FALSE, "absent", <<>>),
      Outcome(FALSE, <<>>, FALSE, <<>>, 0, TRUE, "text", CleanFinal),
      Outcome(FALSE, <<>>, FALSE, <<>>, 0, FALSE, "absent", <<>>) }

RunOutcomes(m) ==
    IF m # "single" THEN ShortRunOutcomes
    ELSE ShortRunOutcomes \cup
    { Outcome(TRUE, SecretBoom, FALSE, <<>>, 0, FALSE, "absent", <<>>),
      Outcome(TRUE, <<>>, FALSE, <<>>, 0, FALSE, "absent", <<>>),
      Outcome(FALSE, <<>>, TRUE, <<>>, 0, FALSE, "absent", <<>>),
      Outcome(FALSE, <<>>, FALSE, <<ClickStep>>, 0, TRUE, "text", CleanFinal),
      Outcome(FALSE, <<>>, FALSE, <<ClickStep>>, 0, TRUE, "absent", <<>>),
      Outcome(FALSE, <<>>, FALSE, <<>>, 0, TRUE, "text", NegativeFinal),
      Outcome(FALSE, <<>>, FALSE, <<>>, 0, TRUE, "text", HoweverFinal),
      Outcome(FALSE, <<>>, FALSE, <<>>, 0, TRUE, "text", SecretFinal),
      Outcome(FALSE, <<>>, FALSE, <<InputStep>>, 0, TRUE, "text", CleanFinal),
      Outcome(FALSE, <<>>, FALSE, <<>>, 0, TRUE, "none", <<>>),
      Outcome(FALSE, <<>>, FALSE, <<>>, 0, FALSE, "none", <<>>),
      Outcome(FALSE, <<>>, FALSE, <<ClickStep>>, 0, FALSE, "text", CleanFinal),
      Outcome(FALSE, <<>>, FALSE, <<ClickStep, InputStep>>, 0, FALSE, "text", CleanFinal),
      Outcome(FALSE, <<>>, FALSE, <<InputStep, ClickStep>>, 0, TRUE, "text", CleanFinal),
      Outcome(FALSE, Boom, FALSE, <<ClickStep>>, 1, FALSE, "absent", <<>>),
      Outcome(FALSE, <<>>, FALSE, <<EmptyListStep>>, 0, TRUE, "text", CleanFinal),
      Outcome(FALSE, Boom, FALSE, <<ClickStep>>, 1, TRUE, "text", CleanFinal),
      Outcome(FALSE, Boom, FALSE, <<ClickStep, ClickStep>>, 2, TRUE, "text", CleanFinal) }

StopOutcomes(m) ==
    { [raises |-> FALSE, msg |-> <<>>], [raises |-> TRUE, msg |-> Boom] }
    \cup (IF m = "single" THEN {[raises |-> TRUE, msg |-> SecretBoom]} ELSE {})

(***************************************************************************)
(* The state.                                                              *)
(*   cfg         the configuration module                                  *)
(*   mode        what the driver calls: run_task itself ("single",         *)
(*               run_single_task.py), run_tasks_sequential or              *)
(*               run_tasks_parallel                                        *)
(*   n           len(tasks)                                                *)
(*   task_delay  the delay passed to run_tasks_sequential                  *)
(*   spc         where the scheduler is                                    *)
(*   idx         the loop variable i of the scheduler                      *)
(*   results     the list results of the scheduler                         *)
(*   sleeps      the asyncio.sleep calls the scheduler has made            *)
(*   batches     the asyncio.gather calls the scheduler has made           *)
(*   tpc         where each run_task call is                               *)
(*   browser     the variable browser of each call ("None", or the state   *)
(*               of the session it holds: "open", "stopped")               *)
(*   logs        the variable logs of each call                            *)
(*   runs, stops the agent.run() and browser.stop() calls made per task    *)
(*   value       the value of the return statement reached (or the         *)
(*               exception leaving the except clause) before finally runs  *)
(*   ret         what the call returned or raised                          *)
(*   stop_fault  browser.stop() raised                                     *)
(*   agent_result  what agent.run() did in each call, once it is over      *)
(*   caught      the message of the exception e that the except clause     *)
(*               of each call caught                                       *)
(*   tasks       the list of descriptors handed to the policy              *)
(*   execution_mode  the configured EXECUTION_MODE, as written             *)
(*   users       for the session that each call acquired, the calls whose  *)
(*               agent was run on it                                       *)
(*   used_late   an agent was run on the session when it was not open      *)
(*   sheet       the rows of the sheet, each a list of cell texts          *)
(*   start_row   the start_row given to get_all_tasks                      *)
(*   query       the call made to the sheet reader                         *)
(*   summary     the counts that print_summary printed and those that the  *)
(*               report took from calculate_test_statistics                *)
(*   report      the tests of the report that the driver generates once    *)
(*               the scheduler has returned, or None before that           *)
(* and, for mask_sensitive_data called on its own (mode "mask"):           *)
(*   m_text      the argument text                                         *)
(*   m_once      what mask_sensitive_data(text) returned or raised         *)
(*   m_twice     what mask_sensitive_data of that returned or raised       *)
(*   m_pc        how many of the two calls are over                        *)
(***************************************************************************)
VARIABLES cfg, mode, execution_mode, n, tasks, task_delay, spc, idx, results, sleeps, batches,
          tpc, browser, logs, runs, stops, value, ret, stop_fault,
          agent_result, caught, users, used_late,
          m_text, m_once, m_twice, m_pc, report, summary,
          sheet, start_row, query

vars == <<cfg, mode, execution_mode, n, tasks, task_delay, spc, idx, results, sleeps, batches,
          tpc, browser, logs, runs, stops, value, ret, stop_fault,
          agent_result, caught, users, used_late,
          m_text, m_once, m_twice, m_pc, report, summary,
          sheet, start_row, query>>

reader == <<sheet, start_row, query>>
env == <<cfg, mode, execution_mode, n, tasks, task_delay, m_text, m_once, m_twice, m_pc,
         report, summary, reader>>
sched == <<spc, idx, results, sleeps, batches>>
calls == <<browser, logs, runs, stops, value, ret, stop_fault, agent_result, caught,
           users, used_late>>

Tasks == 1..n

\* no call of mask_sensitive_data made yet
NotMasked == [kind |-> "none", text |-> <<>>]

\* config.START_ROW
START_ROW == 2

\* no call to the sheet reader was made
NoQuery == [kind |-> "none", value |-> <<>>, active_only |-> TRUE]

\* the values of EXECUTION_MODE tried: as config.py documents them, and for
\* short task lists also in capitals, with a trailing blank, and another word
ParallelWord == <<"p","a","r","a","l","l","e","l">>
SequentialWord == <<"s","e","q","u","e","n","t","i","a","l">>
ExecutionModes(k) ==
    IF k > 1 THEN {ParallelWord, SequentialWord}
    ELSE { ParallelWord, SequentialWord,
           <<"P","A","R","A","L","L","E","L">>,
           <<"P","a","r","a","l","l","e","l">>,
           ParallelWord \o <<" ">>,
           <<"f","a","s","t">> }

\* SelectPolicy without the .lower() of line 18
SelectPolicy_CaseSensitive(text) ==
    IF text = ParallelWord THEN "parallel" ELSE "sequential"

\* run_multiple_tasks.py lines 18 and 49-52: the policy that main calls
SelectPolicy(text) ==
    IF Lower(text) = ParallelWord THEN "parallel" ELSE "sequential"

Init ==
    /\ report = None
    /\ summary = None
    /\ sheet = <<>>
    /\ start_row = START_ROW
    /\ query = NoQuery
    /\ m_text = <<>>
    /\ m_once = NotMasked
    /\ m_twice = NotMasked
    /\ m_pc = 0
    /\ n \in 0..MaxTasks
    /\ tasks = [i \in 1..n |-> Task(i)]
    /\ \/ /\ mode = "single"
          /\ execution_mode = SequentialWord
       \/ /\ execution_mode \in ExecutionModes(n)
          /\ mode = SelectPolicy(execution_mode)
    /\ \/ /\ mode = "single"
          /\ task_delay = 0
          /\ cfg \in Configs(DefaultMaxParallel)
       \/ /\ mode = "sequential"
          /\ task_delay \in {0, DefaultTaskDelay}
          /\ cfg \in Configs(DefaultMaxParallel)
       \/ /\ mode = "parallel"
          /\ task_delay = 0
          /\ \E mp \in -1..MaxParallel : cfg \in Configs(mp)
    /\ spc = "init"
    /\ idx = 0
    /\ results = <<>>
    /\ sleeps = 0
    /\ batches = 0
    /\ tpc = [i \in 1..MaxTasks |-> "idle"]
    /\ browser = [i \in 1..MaxTasks |-> "None"]
    /\ logs = [i \in 1..MaxTasks |-> <<>>]
    /\ runs = [i \in 1..MaxTasks |-> 0]
    /\ stops = [i \in 1..MaxTasks |-> 0]
    /\ value = [i \in 1..MaxTasks |-> NoValue]
    /\ ret = [i \in 1..MaxTasks |-> NoValue]
    /\ stop_fault = [i \in 1..MaxTasks |-> FALSE]
    /\ agent_result = [i \in 1..MaxTasks |-> None]
    /\ caught = [i \in 1..MaxTasks |-> None]
    /\ users = [i \in 1..MaxTasks |-> {}]
    /\ used_late = [i \in 1..MaxTasks |-> FALSE]

(***************************************************************************)
(* run_task: the three stretches between its suspension points.            *)
(***************************************************************************)
\* the coroutines of S are created: run_task(llm, task, i)
Created(S) == [i \in 1..MaxTasks |-> IF i \in S THEN "created" ELSE tpc[i]]

\* NeedsStop with browser.stop() at the end of the try block instead
NeedsStop_NotOnException(b, raised) == b # "None" /\ ~raised

\* line 309: the finally clause calls browser.stop(), however the try
\* block ended (raised: through the except clause)
NeedsStop(b, raised) == b # "None"

\* the call leaves the try statement with the value v: finally runs, and the
\* call is over at once unless it has a browser to stop
Leave(i, v, b, raised) ==
    /\ value' = [value EXCEPT ![i] = v]
    /\ IF NeedsStop(b, raised)
       THEN /\ tpc' = [tpc EXCEPT ![i] = "stopping"]
            /\ stops' = [stops EXCEPT ![i] = @ + 1]
            /\ UNCHANGED ret
       ELSE /\ tpc' = [tpc EXCEPT ![i] = "done"]
            /\ ret' = [ret EXCEPT ![i] = v]
            /\ UNCHANGED stops

\* AgentBrowser with one session, that of the first call, given to every agent
AgentBrowser_Shared(i) == 1

\* line 128: the session given to the agent of call i is the one that the
\* call has in its own variable browser (sessions are named by their call)
AgentBrowser(i) == i

\* lines 55-135: up to `await agent.run()`, or through the except clause
TaskStart(i) ==
    /\ tpc[i] = "created"
    /\ \E a \in StartInputs(mode) : \E r \in {TryStart(cfg, tasks[i], a)} :
         /\ browser' = [browser EXCEPT ![i] = r.browser]
         /\ logs' = [logs EXCEPT ![i] = r.logs]
         /\ IF r.running
            THEN /\ tpc' = [tpc EXCEPT ![i] = "running"]
                 /\ runs' = [runs EXCEPT ![i] = @ + 1]
                 /\ users' = [users EXCEPT ![AgentBrowser(i)] = @ \cup {i}]
                 /\ used_late' = [used_late EXCEPT ![AgentBrowser(i)] =
                                      @ \/ browser'[AgentBrowser(i)] # "open"]
                 /\ UNCHANGED <<stops, value, ret, caught>>
            ELSE /\ Leave(i, ExceptResult(cfg, tasks[i], i, r.logs, r.msg), r.browser, TRUE)
                 /\ caught' = [caught EXCEPT ![i] = Some(r.msg)]
                 /\ UNCHANGED <<runs, users, used_late>>
    /\ UNCHANGED <<env, sched, stop_fault, agent_result>>

\* lines 135-311: agent.run() is over; up to `await browser.stop()`
TaskRun(i) ==
    /\ tpc[i] = "running"
    /\ \E o \in RunOutcomes(mode) : \E t \in {TryRun(cfg, o, logs[i])} :
         /\ Leave(i, Finish(cfg, tasks[i], i, t), browser[i], t.raised)
         /\ agent_result' = [agent_result EXCEPT ![i] = Some(o)]
         /\ caught' = [caught EXCEPT ![i] = IF t.raised THEN Some(t.msg) ELSE None]
    /\ UNCHANGED <<env, sched, browser, logs, runs, stop_fault, users, used_late>>

\* lines 311-314: browser.stop() is over; the call returns or raises
TaskStop(i) ==
    /\ tpc[i] = "stopping"
    /\ \E s \in StopOutcomes(mode) :
         /\ ret' = [ret EXCEPT ![i] = FinallyResult(cfg, value[i], s)]
         /\ stop_fault' = [stop_fault EXCEPT ![i] = s.raises]
    /\ tpc' = [tpc EXCEPT ![i] = "done"]
    /\ browser' = [browser EXCEPT ![i] = "stopped"]
    /\ UNCHANGED <<env, sched, logs, runs, stops, value, agent_result, caught,
                   users, used_late>>

\* RunTaskOver with the Result handed back before the session is stopped
RunTaskOver_Early(i) == tpc[i] \in {"stopping", "done"}

\* `await run_task(...)` is over: the call has returned or raised
RunTaskOver(i) == tpc[i] = "done"

(***************************************************************************)
(* main of run_single_task.py (lines 20-42): run_task on the first task.   *)
(***************************************************************************)
SingleBegin ==
    /\ spc = "init"
    /\ mode = "single"
    /\ IF n = 0
       THEN /\ spc' = "done"
            /\ UNCHANGED <<idx, tpc>>
       ELSE /\ spc' = "call"
            /\ idx' = 1
            /\ tpc' = Created({1})
    /\ UNCHANGED <<env, results, sleeps, batches, calls>>

SingleCollect ==
    /\ spc = "call"
    /\ mode = "single"
    /\ RunTaskOver(idx)
    /\ IF ret[idx].kind = "exc"
       THEN /\ spc' = "raised"
            /\ UNCHANGED results
       ELSE /\ spc' = "done"
            /\ results' = <<ret[idx]>>
    /\ UNCHANGED <<env, idx, sleeps, batches, tpc, calls>>

(***************************************************************************)
(* run_tasks_sequential (lines 317-340).                                   *)
(***************************************************************************)
SeqBegin ==
    /\ spc = "init"
    /\ mode = "sequential"
    /\ IF n = 0
       THEN /\ spc' = "done"
            /\ UNCHANGED <<idx, tpc>>
       ELSE /\ spc' = "call"
            /\ idx' = 1
            /\ tpc' = Created({1})
    /\ UNCHANGED <<env, results, sleeps, batches, calls>>

\* MoreTasks with the delay after every task, the last one too
MoreTasks_Always(i) == i <= n

\* line 336: task i is not the last one
MoreTasks(i) == i < n

\* `await run_task(...)` is over: append, then sleep unless it was the last
SeqCollect ==
    /\ spc = "call"
    /\ mode = "sequential"
    /\ RunTaskOver(idx)
    /\ IF ret[idx].kind = "exc"
       THEN /\ spc' = "raised"
            /\ UNCHANGED <<results, sleeps>>
       ELSE /\ results' = Append(results, ret[idx])
            /\ IF MoreTasks(idx)
               THEN /\ spc' = "sleep"
                    /\ sleeps' = sleeps + 1
               ELSE /\ spc' = "done"
                    /\ UNCHANGED sleeps
    /\ UNCHANGED <<env, idx, batches, tpc, calls>>

SeqWake ==
    /\ spc = "sleep"
    /\ mode = "sequential"
    /\ idx' = idx + 1
    /\ spc' = "call"
    /\ tpc' = Created({idx + 1})
    /\ UNCHANGED <<env, results, sleeps, batches, calls>>

(***************************************************************************)
(* run_tasks_parallel (lines 343-389).                                     *)
(***************************************************************************)
max_parallel == cfg.MAX_PARALLEL_AGENTS

\* gather left at its default, return_exceptions=False
fail_fast == FALSE

\* asyncio.gather(..., return_exceptions=True)
return_exceptions == TRUE

\* Batch without the upper end of the slice
Batch_Unsliced(i) == {j \in Tasks : i < j}

\* tasks[i:i + max_parallel], as task numbers
Batch(i) == {j \in Tasks : i < j /\ j <= i + max_parallel}

\* the entries gather returns for the calls lo..hi, in the order given
Gathered(lo, hi) == [j \in 1..(hi - lo + 1) |-> ret[lo + j - 1]]

\* without return_exceptions gather passes on the first exception of a call
GatherRaises(S) ==
    ~return_exceptions /\ \E j \in S : RunTaskOver(j) /\ ret[j].kind = "exc"

\* GatherOver with gather handing back as soon as one call is over
GatherOver_FirstDone(S) == GatherRaises(S) \/ \E j \in S : RunTaskOver(j)

\* `await asyncio.gather(...)` is over
GatherOver(S) == GatherRaises(S) \/ \A j \in S : RunTaskOver(j)

\* MoreBatches with <= for <
MoreBatches_OffByOne(i) == i + max_parallel <= n

\* line 385: more batches follow the one that starts after tasks[i]
MoreBatches(i) == i + max_parallel < n

\* Unbatched without the case of zero
Unbatched_OnlyAbove == max_parallel >= n

\* line 358: `if max_parallel == 0 or max_parallel >= len(tasks)`
Unbatched == max_parallel = 0 \/ max_parallel >= n

ParBegin ==
    /\ spc = "init"
    /\ mode = "parallel"
    /\ IF Unbatched
       THEN /\ spc' = "gather_all"
            /\ tpc' = Created(Tasks)
            /\ batches' = batches + 1
            /\ UNCHANGED idx
       ELSE IF max_parallel < 0
       THEN \* range(0, len(tasks), max_parallel) is empty
            /\ spc' = "done"
            /\ UNCHANGED <<idx, tpc, batches>>
       ELSE /\ spc' = "gather"
            /\ idx' = 0
            /\ tpc' = Created(Batch(0))
            /\ batches' = batches + 1
    /\ UNCHANGED <<env, results, sleeps, calls>>

ParCollectAll ==
    /\ spc = "gather_all"
    /\ GatherOver(Tasks)
    /\ IF GatherRaises(Tasks)
       THEN /\ spc' = "raised"
            /\ UNCHANGED results
       ELSE /\ spc' = "done"
            /\ results' = Gathered(1, n)
    /\ UNCHANGED <<env, idx, sleeps, batches, tpc, calls>>

ParCollectBatch ==
    /\ spc = "gather"
    /\ GatherOver(Batch(idx))
    /\ IF GatherRaises(Batch(idx))
       THEN /\ spc' = "raised"
            /\ UNCHANGED <<results, sleeps>>
       ELSE /\ results' = results \o Gathered(idx + 1, idx + Cardinality(Batch(idx)))
            /\ IF MoreBatches(idx)
               THEN /\ spc' = "sleep"
                    /\ sleeps' = sleeps + 1
               ELSE /\ spc' = "done"
                    /\ UNCHANGED sleeps
    /\ UNCHANGED <<env, idx, batches, tpc, calls>>

ParWake ==
    /\ spc = "sleep"
    /\ mode = "parallel"
    /\ idx' = idx + max_parallel
    /\ spc' = "gather"
    /\ tpc' = Created(Batch(idx + max_parallel))
    /\ batches' = batches + 1
    /\ UNCHANGED <<env, results, sleeps, calls>>

(***************************************************************************)
(* The report (src/report_generator.py): the drivers call                  *)
(* generate_html_report(results) once the scheduler has returned, and that *)
(* calls generate_json_report(results).                                    *)
(***************************************************************************)
\* `isinstance(result, dict)`: the entry is a Result, not an exception
IsDict(r) == r.kind = "result"

\* test_data of the JSON report; shown is whether the HTML report has an
\* error section for the test (`if not success and error`)
TestData(r) ==
    [task_number |-> r.task_number,
     scenario |-> r.scenario,
     status |-> IF r.success THEN "passed" ELSE "failed",
     error |-> r.error,
     shown |-> ~r.success /\ r.error # None /\ r.error # Some(<<>>),
     steps |-> r.agent_steps,
     logs |-> r.logs]

\* the tests of the report: one for each entry that is a dict
ReportTests(rs) ==
    [k \in 1..Len(SelectSeq(rs, IsDict)) |-> TestData(SelectSeq(rs, IsDict)[k])]

\* the driver goes on after the scheduler has returned: it prints the
\* summary and writes the report (a driver makes no run and no report for an
\* empty task list)
\* the three counts that print_summary prints
print_summary(rs) ==
    [passed |-> Cardinality({k \in 1..Len(rs) : IsDict(rs[k]) /\ rs[k].success}),
     failed |-> Cardinality({k \in 1..Len(rs) : IsDict(rs[k]) /\ ~rs[k].success}),
     total |-> Len(rs)]

\* calculate_test_statistics without its pass rate
calculate_test_statistics(rs) ==
    LET passed_tests == Cardinality({k \in 1..Len(rs) : IsDict(rs[k]) /\ rs[k].success})
    IN [total_tests |-> Len(rs),
        passed_tests |-> passed_tests,
        failed_tests |-> Len(rs) - passed_tests]

GenerateReport ==
    /\ spc = "done"
    /\ n > 0
    /\ report = None
    /\ report' = Some(ReportTests(results))
    /\ summary' = Some([printed |-> print_summary(results),
                        stats |-> calculate_test_statistics(results)])
    /\ UNCHANGED <<cfg, mode, execution_mode, n, tasks, task_delay,
                   m_text, m_once, m_twice, m_pc, reader, sched, tpc, calls>>

Next ==
    \/ SingleBegin
    \/ SingleCollect
    \/ SeqBegin
    \/ SeqCollect
    \/ SeqWake
    \/ ParBegin
    \/ ParCollectAll
    \/ ParCollectBatch
    \/ ParWake
    \/ GenerateReport
    \/ \E i \in Tasks : TaskStart(i)
    \/ \E i \in Tasks : TaskRun(i)
    \/ \E i \in Tasks : TaskStop(i)

Spec == Init /\ [][Next]_vars

(***************************************************************************)
(* The runs in which nothing hangs.  The event loop resumes a coroutine    *)
(* that can go on (a gather whose calls are over, a sleep) and the script  *)
(* goes on to its report; and every await of a call of run_task, on the    *)
(* start of the session, on agent.run() and on browser.stop(), comes back. *)
(***************************************************************************)
\* the steps of the scheduler and of the script
Scheduler ==
    \/ SingleBegin \/ SingleCollect
    \/ SeqBegin \/ SeqCollect \/ SeqWake
    \/ ParBegin \/ ParCollectAll \/ ParCollectBatch \/ ParWake
    \/ GenerateReport

\* a step of call i of run_task: the call is under way and one of its awaits
\* comes back, which is what TaskStart(i), TaskRun(i) and TaskStop(i) do to tpc
Call(i) ==
    /\ tpc[i] \in {"created", "running", "stopping"}
    /\ \E pc \in {"running", "stopping", "done"} \ {tpc[i]} :
           tpc' = [tpc EXCEPT ![i] = pc]

\* FairSpec with calls of run_task that may never come back
FairSpec_HungCalls == Init /\ [][Next]_vars /\ WF_vars(Scheduler)

FairSpec ==
    /\ Init /\ [][Next]_vars
    /\ WF_vars(Scheduler)
    /\ \A i \in 1..MaxTasks : WF_tpc(Call(i))

(***************************************************************************)
(* mask_sensitive_data called on its own (lines 13-40), twice in a row:    *)
(* on a text, then on what the first call returned.                        *)
(***************************************************************************)
\* a secret literal that is part of the redaction tokens
TokenKey == <<"K","E","Y">>

ManyA == [j \in 1..MinApiKeyLen |-> "a"]

\* the pieces the texts are made of
Fragments ==
    { <<"x">>, <<" ">>, LtKey, GoogleKey, TokenKey, MaskedAccessKey,
      AccessKeyName \o <<":"," ","\"","v","\"">>,
      AccessKeyName \o <<" ",":","\"">>,
      <<"a","p","i","_","k","e","y","=">> \o ManyA,
      <<"A","P","I","-","K","E","Y"," ",":"," ","'">> \o ManyA \o <<"-","'">>,
      <<"a","p","i","k","e","y","=">> \o Rest(ManyA, 2) }

\* the texts: the empty one, the fragments, and two fragments in a row
MaskTexts == {<<>>} \cup Fragments \cup {a \o b : a, b \in Fragments}

MaskConfigs ==
    { ShippedConfig(DefaultMaxParallel),
      FullConfig(FALSE, LtUser, LtKey, DefaultMaxParallel),
      FullConfig(FALSE, <<>>, <<>>, DefaultMaxParallel),
      FullConfig(FALSE, LtUser, TokenKey, DefaultMaxParallel) }

\* what a call mask_sensitive_data(text) returns or raises
MaskCallOut(c, text) ==
    IF MaskRaises(c, text) THEN [kind |-> "exc", text |-> NoKeyAttrMessage]
    ELSE [kind |-> "str", text |-> mask_sensitive_data(c, text)]

MaskInit ==
    /\ report = None
    /\ summary = None
    /\ sheet = <<>>
    /\ start_row = START_ROW
    /\ query = NoQuery
    /\ cfg \in MaskConfigs
    /\ mode = "mask"
    /\ execution_mode = SequentialWord
    /\ n = 0
    /\ tasks = <<>>
    /\ task_delay = 0
    /\ m_text \in MaskTexts
    /\ m_once = NotMasked
    /\ m_twice = NotMasked
    /\ m_pc = 0
    /\ spc = "init"
    /\ idx = 0
    /\ results = <<>>
    /\ sleeps = 0
    /\ batches = 0
    /\ tpc = [i \in 1..MaxTasks |-> "idle"]
    /\ browser = [i \in 1..MaxTasks |-> "None"]
    /\ logs = [i \in 1..MaxTasks |-> <<>>]
    /\ runs = [i \in 1..MaxTasks |-> 0]
    /\ stops = [i \in 1..MaxTasks |-> 0]
    /\ value = [i \in 1..MaxTasks |-> NoValue]
    /\ ret = [i \in 1..MaxTasks |-> NoValue]
    /\ stop_fault = [i \in 1..MaxTasks |-> FALSE]
    /\ agent_result = [i \in 1..MaxTasks |-> None]
    /\ caught = [i \in 1..MaxTasks |-> None]
    /\ users = [i \in 1..MaxTasks |-> {}]
    /\ used_late = [i \in 1..MaxTasks |-> FALSE]

\* mask_sensitive_data(text)
MaskCall ==
    /\ mode = "mask"
    /\ m_pc = 0
    /\ m_once' = MaskCallOut(cfg, m_text)
    /\ m_pc' = 1
    /\ UNCHANGED <<cfg, mode, execution_mode, n, tasks, task_delay,
                   m_text, m_twice, report, summary, reader, sched, tpc, calls>>

\* mask_sensitive_data of what the first call returned
MaskAgain ==
    /\ mode = "mask"
    /\ m_pc = 1
    /\ m_once.kind = "str"
    /\ m_twice' = MaskCallOut(cfg, m_once.text)
    /\ m_pc' = 2
    /\ UNCHANGED <<cfg, mode, execution_mode, n, tasks, task_delay,
                   m_text, m_once, report, summary, reader, sched, tpc, calls>>

MaskNext == MaskCall \/ MaskAgain

MaskSpec == MaskInit /\ [][MaskNext]_vars

(***************************************************************************)
(* The sheet reader (src/sheets_reader.py), taken alone: a sheet of rows   *)
(* is read by get_all_tasks, get_tasks_by_category or                      *)
(* get_tasks_by_priority, and the list handed back becomes the task list.  *)
(***************************************************************************)
YesWord == <<"y","e","s">>

\* the rows tried: an active one, one written in capitals, an inactive one,
\* one with a blank prompt, one with four cells, one whose Active is ' yes'
SheetRows ==
    { << <<"A">>, <<"p","a">>, <<"S","m","o","k","e">>, <<"H","i","g","h">>, YesWord >>,
      << <<"B">>, <<"p","b">>, <<"S","M","O","K","E">>, <<"H","I","G","H">>,
         <<"Y","E","S">> >>,
      << <<"C">>, <<"p","c">>, <<"R","e","g","r">>, <<"L","o","w">>, <<"n","o">> >>,
      << <<"D">>, <<" "," ">>, <<"S","m","o","k","e">>, <<"H","i","g","h">>, YesWord >>,
      << <<"E">>, <<"p","e">>, <<"S","m","o","k","e">>, <<"H","i","g","h">> >>,
      << <<"F">>, <<"p","f">>, <<"R","e","g","r">>, <<"L","o","w">>,
         <<" ">> \o YesWord >> }

\* str.strip()
Strip(t) ==
    LET keep == {k \in 1..Len(t) : ~IsSpace(t[k])} IN
    IF keep = {} THEN <<>>
    ELSE SubSeq(t, CHOOSE k \in keep : \A j \in keep : k <= j,
                   CHOOSE k \in keep : \A j \in keep : j <= k)

\* lines 72-78
TaskInfo(row_data) ==
    [scenario_name |-> row_data[1],
     prompt_text |-> row_data[2],
     category |-> row_data[3],
     priority |-> row_data[4],
     active |-> Lower(row_data[5]) = YesWord]

\* ReadRows with the Active cell compared as it is written
RECURSIVE ReadRows_CaseSensitive(_, _, _)
ReadRows_CaseSensitive(all_rows, k, active_only) ==
    IF k > Len(all_rows) THEN <<>>
    ELSE IF Len(all_rows[k]) < 5 THEN ReadRows_CaseSensitive(all_rows, k + 1, active_only)
    ELSE IF Strip(all_rows[k][2]) = <<>>
    THEN ReadRows_CaseSensitive(all_rows, k + 1, active_only)
    ELSE IF active_only /\ all_rows[k][5] # YesWord
    THEN ReadRows_CaseSensitive(all_rows, k + 1, active_only)
    ELSE << TaskInfo(all_rows[k]) >> \o ReadRows_CaseSensitive(all_rows, k + 1, active_only)

\* the loop at lines 62-84, from row k of all_rows on
RECURSIVE ReadRows(_, _, _)
ReadRows(all_rows, k, active_only) ==
    IF k > Len(all_rows) THEN <<>>
    ELSE IF Len(all_rows[k]) < 5 THEN ReadRows(all_rows, k + 1, active_only)
    ELSE IF Strip(all_rows[k][2]) = <<>> THEN ReadRows(all_rows, k + 1, active_only)
    ELSE IF active_only /\ ~TaskInfo(all_rows[k]).active
    THEN ReadRows(all_rows, k + 1, active_only)
    ELSE << TaskInfo(all_rows[k]) >> \o ReadRows(all_rows, k + 1, active_only)

\* line 60: sheet.get_all_values()[start_row-1:], for a row number from 1 on
RowsFrom(rows, from) == SubSeq(rows, from, Len(rows))

get_all_tasks(rows, from, active_only) == ReadRows(RowsFrom(rows, from), 1, active_only)

\* line 103; get_all_tasks is called without start_row, so from config.START_ROW
get_tasks_by_category(rows, category, active_only) ==
    LET Matches(task) == Lower(task.category) = Lower(category)
    IN SelectSeq(get_all_tasks(rows, START_ROW, active_only), Matches)

\* line 120
get_tasks_by_priority(rows, priority, active_only) ==
    LET Matches(task) == Lower(task.priority) = Lower(priority)
    IN SelectSeq(get_all_tasks(rows, START_ROW, active_only), Matches)

SheetInit ==
    /\ report = None
    /\ summary = None
    /\ sheet \in UNION {[1..k -> SheetRows] : k \in 0..MaxRows}
    /\ start_row \in 1..(MaxRows + 1)
    /\ query = NoQuery
    /\ cfg = ShippedConfig(DefaultMaxParallel)
    /\ mode = "sheet"
    /\ execution_mode = SequentialWord
    /\ n = 0
    /\ tasks = <<>>
    /\ task_delay = 0
    /\ m_text = <<>>
    /\ m_once = NotMasked
    /\ m_twice = NotMasked
    /\ m_pc = 0
    /\ spc = "init"
    /\ idx = 0
    /\ results = <<>>
    /\ sleeps = 0
    /\ batches = 0
    /\ tpc = [i \in 1..MaxTasks |-> "idle"]
    /\ browser = [i \in 1..MaxTasks |-> "None"]
    /\ logs = [i \in 1..MaxTasks |-> <<>>]
    /\ runs = [i \in 1..MaxTasks |-> 0]
    /\ stops = [i \in 1..MaxTasks |-> 0]
    /\ value = [i \in 1..MaxTasks |-> NoValue]
    /\ ret = [i \in 1..MaxTasks |-> NoValue]
    /\ stop_fault = [i \in 1..MaxTasks |-> FALSE]
    /\ agent_result = [i \in 1..MaxTasks |-> None]
    /\ caught = [i \in 1..MaxTasks |-> None]
    /\ users = [i \in 1..MaxTasks |-> {}]
    /\ used_late = [i \in 1..MaxTasks |-> FALSE]

\* the reader hands back list got for the call q
Read(q, got) ==
    /\ mode = "sheet"
    /\ query = NoQuery
    /\ query' = q
    /\ tasks' = got
    /\ n' = Len(got)
    /\ UNCHANGED <<cfg, mode, execution_mode, task_delay, m_text, m_once, m_twice, m_pc,
                   report, summary, sheet, start_row, sched, tpc, calls>>

\* tasks = get_all_tasks(spreadsheet_id, start_row=start_row, active_only=...)
ReadAll ==
    \E active_only \in BOOLEAN :
        Read([kind |-> "all", value |-> <<>>, active_only |-> active_only],
             get_all_tasks(sheet, start_row, active_only))

\* tasks = get_tasks_by_category(spreadsheet_id, category, active_only=...)
ReadByCategory ==
    \E category \in {<<"s","m","o","k","e">>, <<"R","e","g","r">>} : \E active_only \in BOOLEAN :
        Read([kind |-> "category", value |-> category, active_only |-> active_only],
             get_tasks_by_category(sheet, category, active_only))

\* tasks = get_tasks_by_priority(spreadsheet_id, priority, active_only=...)
ReadByPriority ==
    \E priority \in {<<"h","i","g","h">>, <<"L","o","w">>} : \E active_only \in BOOLEAN :
        Read([kind |-> "priority", value |-> priority, active_only |-> active_only],
             get_tasks_by_priority(sheet, priority, active_only))

SheetNext == ReadAll \/ ReadByCategory \/ ReadByPriority

SheetSpec == SheetInit /\ [][SheetNext]_vars

(***************************************************************************)
(* What the claims speak of.                                               *)
(***************************************************************************)
\* the sessions acquired and not yet torn down
OpenSessions == Cardinality({i \in Tasks : browser[i] = "open"})

\* the calls started and not yet over
InFlight == {i \in Tasks : tpc[i] \in {"created", "running", "stopping"}}

Started == {i \in Tasks : tpc[i] # "idle"}

\* ceil(a / b) for b >= 1
CeilDiv(a, b) == (a + b - 1) \div b

\* the batch of task i under batching (max_parallel >= 1), counted from 0
BatchOf(i) == (i - 1) \div max_parallel

Batching == mode = "parallel" /\ 1 <= max_parallel /\ max_parallel < n

\* the call ended in a Result made by the except clause
CaughtException(i) ==
    /\ tpc[i] = "done"
    /\ ret[i].kind = "result"
    /\ ~ret[i].success
    /\ ret[i].error # Some(TaskNotCompleted)

Passed(i) == tpc[i] = "done" /\ ret[i].kind = "result" /\ ret[i].success

\* the call is over and gave a failed Result or raised
Failed(i) ==
    tpc[i] = "done" /\ (ret[i].kind = "exc" \/ ~ret[i].success)

(***************************************************************************)
(* C1.  run_task never propagates an error to its caller: whatever the     *)
(* task and whatever fault is raised, every call that is over has          *)
(* returned a Result record instead of raising.                            *)
(* Violated: with src/config.py as it is, reading config.USE_LAMBDATEST    *)
(* raises inside the try block and mask_sensitive_data raises again inside *)
(* the except clause, so the call raises AttributeError.                   *)
(***************************************************************************)
C1_RunTaskNeverRaises ==
    \A i \in Tasks : tpc[i] = "done" => ret[i].kind = "result"

(***************************************************************************)
(* C2.  For every task list, delay and integer max-parallel setting, both  *)
(* policies return a list with exactly one entry per input task, entry i   *)
(* being the outcome of input task i.                                      *)
(* Violated: with a negative MAX_PARALLEL_AGENTS run_tasks_parallel        *)
(* returns the empty list for a non-empty task list.                       *)
(***************************************************************************)
C2_OneEntryPerTaskInOrder ==
    (mode \in {"sequential", "parallel"} /\ spc = "done") =>
        /\ Len(results) = n
        /\ \A i \in Tasks : results[i] = ret[i]

(***************************************************************************)
(* C3.  Every Result record run_task produces has success = false exactly  *)
(* when its error is not null, at the return statement of the try block    *)
(* and in the except clause alike.                                         *)
(***************************************************************************)
C3_SuccessIffNoError ==
    \A i \in Tasks : \A v \in {value[i], ret[i]} :
        v.kind = "result" => (v.success = FALSE <=> v.error # None)

\* one run holds a passed Result with no error beside the Result of a
\* caught exception that carries its message
C3_Witness ==
    \E i, j \in Tasks :
        /\ Passed(i) /\ ret[i].error = None
        /\ CaughtException(j) /\ ret[j].error = Some(Boom)

(***************************************************************************)
(* C4.  Whenever a call has acquired a browser session, browser.stop() is  *)
(* invoked exactly once for it, on every path: never twice, and once the   *)
(* call has left its try statement, and when it is over, exactly once.     *)
(***************************************************************************)
C4_TeardownExactlyOnce ==
    \A i \in Tasks :
        /\ stops[i] <= 1
        /\ (tpc[i] \in {"stopping", "done"} /\ browser[i] # "None") => stops[i] = 1
        /\ tpc[i] = "done" => browser[i] # "open"

\* agent.run() raised, the exception was caught, and the session was
\* stopped once
C4_Witness ==
    \E i \in Tasks :
        /\ CaughtException(i)
        /\ runs[i] = 1
        /\ browser[i] = "stopped"
        /\ stops[i] = 1

(***************************************************************************)
(* C5.  A fault raised by browser.stop() does not change what run_task     *)
(* returns and is not raised to the caller: the call returns the Result    *)
(* that the return statement had computed before the teardown.             *)
(***************************************************************************)
C5_TeardownFaultKeepsResult ==
    \A i \in Tasks :
        (tpc[i] = "done" /\ stop_fault[i]) =>
            /\ ret[i].kind = "result"
            /\ ret[i] = value[i]

\* browser.stop() raised after a passed task, and the Result is returned
C5_Witness ==
    \E i \in Tasks : stop_fault[i] /\ Passed(i) /\ ret[i] = value[i]

(***************************************************************************)
(* C6 as stated.  Under the parallel policy with max_parallel = k and      *)
(* n > k tasks, at most k browser sessions are open in every reachable     *)
(* state.                                                                  *)
(* Violated: k = 0 means no limit, and all n sessions may be open.  (The   *)
(* states looked at are those with a session open.)                        *)
(***************************************************************************)
C6_Original ==
    (mode = "parallel" /\ n > max_parallel /\ OpenSessions > 0) =>
        OpenSessions <= max_parallel

(***************************************************************************)
(* C6 as amended.  Under the parallel policy with 1 <= k < n, the tasks    *)
(* are run in ceil(n/k) consecutive batches of at most k tasks each, and   *)
(* at most k sessions are open in every reachable state.                   *)
(***************************************************************************)
C6_Batching ==
    Batching =>
        /\ OpenSessions <= max_parallel
        /\ Cardinality(InFlight) <= max_parallel
        /\ InFlight \subseteq Batch(idx)
        /\ Cardinality(Batch(idx)) <= max_parallel
        /\ spc # "init" => /\ idx = (batches - 1) * max_parallel
                           /\ Started = {j \in Tasks : j <= idx + max_parallel}
        /\ batches <= CeilDiv(n, max_parallel)
        /\ spc = "done" => batches = CeilDiv(n, max_parallel)

\* three tasks, two at a time: both sessions of the first batch are open
C6_Witness ==
    /\ mode = "parallel"
    /\ max_parallel = 2
    /\ n = 3
    /\ OpenSessions = 2

(***************************************************************************)
(* C7.  Under the parallel policy with batching, no task of a later batch  *)
(* is started before every task of an earlier batch is over, teardown      *)
(* included; the scheduler pauses only between two batches, so a run of    *)
(* ceil(n/k) batches makes ceil(n/k) - 1 pauses and none after the last.   *)
(***************************************************************************)
C7_BatchBarrier ==
    Batching =>
        /\ \A i, j \in Tasks :
               (BatchOf(i) < BatchOf(j) /\ tpc[j] # "idle") =>
                   (tpc[i] = "done" /\ browser[i] # "open")
        /\ spc = "sleep" => (sleeps = batches /\ idx + max_parallel < n)
        /\ spc \in {"gather", "done"} => sleeps = batches - 1
        /\ spc = "done" => sleeps = CeilDiv(n, max_parallel) - 1

\* three batches of one task each are over, with two pauses
C7_Witness ==
    /\ mode = "parallel"
    /\ max_parallel = 1
    /\ n = 3
    /\ spc = "done"
    /\ sleeps = 2
    /\ \E i \in Tasks : browser[i] = "stopped"

(***************************************************************************)
(* C8.  Under the parallel policy a task that fails, or whose call raises, *)
(* does not cancel or alter a sibling of its batch: gather does not raise, *)
(* the scheduler goes on only when every sibling is over with its session  *)
(* torn down, and the sibling's own outcome is at its own input position.  *)
(***************************************************************************)
SameBatch(i, j) ==
    IF max_parallel = 0 \/ max_parallel >= n THEN TRUE
    ELSE max_parallel >= 1 /\ BatchOf(i) = BatchOf(j)

\* the scheduler is past the gather that task i was part of
Collected(i) ==
    \/ spc \in {"sleep", "done"}
    \/ spc = "gather" /\ i <= idx

C8_SiblingsUnaffected ==
    mode = "parallel" =>
        \A i, j \in Tasks :
            (i # j /\ SameBatch(i, j) /\ Failed(j)) =>
                /\ spc # "raised"
                /\ tpc[i] # "idle"
                /\ Collected(i) =>
                       /\ tpc[i] = "done"
                       /\ browser[i] # "open"
                       /\ Len(results) >= i
                       /\ results[i] = ret[i]
                       /\ ret[i].kind = "result" => ret[i].task_number = i

\* the run is over: a call of a batch ended in a caught exception and a
\* sibling of the same batch passed and is at its own position
C8_Witness ==
    /\ mode = "parallel"
    /\ spc = "done"
    /\ \E i, j \in Tasks :
           /\ i # j
           /\ SameBatch(i, j)
           /\ CaughtException(j)
           /\ Passed(i)
           /\ browser[i] = "stopped"
           /\ results[i] = ret[i]

(***************************************************************************)
(* C9.  Under the sequential policy a fault in a task's session does not   *)
(* abort the run: the later tasks are still executed in order and the      *)
(* returned list has n Results, each the Result of its own task.           *)
(* Violated: with src/config.py as it is, the first call raises (C1) and   *)
(* run_tasks_sequential passes the exception on.                           *)
(***************************************************************************)
C9_SequentialRunNotAborted ==
    mode = "sequential" =>
        /\ spc # "raised"
        /\ spc = "done" =>
               /\ Len(results) = n
               /\ \A i \in Tasks : results[i] = ret[i] /\ ret[i].kind = "result"

(***************************************************************************)
(* C10.  Under the sequential policy the tasks are executed one at a time  *)
(* in input order: a task is started only when every earlier task is over, *)
(* its session torn down and its Result in the list, so at most one        *)
(* session is open in every reachable state.                               *)
(***************************************************************************)
C10_OneAtATime ==
    mode = "sequential" =>
        /\ OpenSessions <= 1
        /\ Cardinality(InFlight) <= 1
        /\ Started = {j \in Tasks : j <= idx}
        /\ \A i, j \in Tasks :
               (i < j /\ tpc[j] # "idle") =>
                   /\ tpc[i] = "done"
                   /\ browser[i] # "open"
                   /\ Len(results) >= i
                   /\ results[i] = ret[i]

\* the second task holds an open session; the first one's is stopped and
\* its Result is in the list
C10_Witness ==
    /\ mode = "sequential"
    /\ n >= 2
    /\ browser[2] = "open"
    /\ browser[1] = "stopped"
    /\ Len(results) = 1
    /\ results[1] = ret[1]

(***************************************************************************)
(* C11.  Under the sequential policy with n tasks the scheduler suspends   *)
(* for the delay after each task except the last and never after the last: *)
(* one suspension lies between every two consecutive task starts, whether  *)
(* the earlier task passed or failed, and a finished run has made exactly  *)
(* n - 1 of them (none when n <= 1).                                       *)
(***************************************************************************)
C11_SequentialDelays ==
    mode = "sequential" =>
        /\ sleeps = (IF idx = 0 THEN 0 ELSE IF spc = "sleep" THEN idx ELSE idx - 1)
        /\ Cardinality(Started) = idx
        /\ spc = "sleep" => (idx < n /\ tpc[idx] = "done")
        /\ spc = "done" => sleeps = (IF n <= 1 THEN 0 ELSE n - 1)

\* three tasks with the configured delay: the run is over after two
\* suspensions, the second task having failed
C11_Witness ==
    /\ mode = "sequential"
    /\ task_delay = DefaultTaskDelay
    /\ n = 3
    /\ spc = "done"
    /\ sleeps = 2
    /\ Passed(1)
    /\ CaughtException(2)

(***************************************************************************)
(* C12.  In both policies, and for every batch size, the entry at input    *)
(* position p of the returned list is a Result that carries task_number p, *)
(* so the task numbers of a run's result list are exactly 1..n.            *)
(* Violated: with a negative MAX_PARALLEL_AGENTS the list is empty (C2),   *)
(* and with src/config.py as it is the entries that gather collects are    *)
(* the exceptions the calls raised (C1), which carry no task number.       *)
(***************************************************************************)
C12_TaskNumbersByPosition ==
    (mode \in {"sequential", "parallel"} /\ spc = "done") =>
        /\ {p \in 1..Len(results) : results[p].kind = "result"} = Tasks
        /\ \A p \in 1..Len(results) : results[p].task_number = p

\* what agent.run() did in call i (once it is over)
Session(i) == agent_result[i][1]

\* agent.run() of call i returned an object whose is_done() is true
SaidDone(i) ==
    /\ agent_result[i] # None
    /\ ~Session(i).raises
    /\ ~Session(i).none
    /\ Session(i).is_done

\* the text t holds the phrase w, letter case ignored
HoldsPhrase(t, w) ==
    \E p \in 1..(Len(t) - Len(w) + 1) :
        \A j \in 1..Len(w) : LowerChar(t[p + j - 1]) = w[j]

\* the final result message of call i is a text that holds one of the
\* negative-outcome phrases
NegativeMessage(i) ==
    /\ Session(i).final_kind = "text"
    /\ \E k \in 1..Len(failure_indicators) :
           HoldsPhrase(Session(i).final_text, failure_indicators[k])

HasLog(i, line) == \E k \in 1..Len(ret[i].logs) : ret[i].logs[k] = line

(***************************************************************************)
(* C13.  If agent.run() returns with is_done() true and the final result   *)
(* message, compared without regard to letter case, holds one of the       *)
(* negative-outcome phrases, the Result of the call has success = false    *)
(* and an error that is not null.                                          *)
(***************************************************************************)
C13_ContradictionDowngrade ==
    \A i \in Tasks :
        (ret[i].kind = "result" /\ SaidDone(i) /\ NegativeMessage(i)) =>
            /\ ret[i].success = FALSE
            /\ ret[i].error # None

\* a call whose session said "Unable to" and was done: it failed as not
\* completed, and the contradiction is in its logs
C13_Witness ==
    \E i \in Tasks :
        /\ tpc[i] = "done"
        /\ ret[i].kind = "result"
        /\ SaidDone(i)
        /\ Session(i).final_text = NegativeFinal
        /\ ret[i].success = FALSE
        /\ ret[i].error = Some(TaskNotCompleted)
        /\ HasLog(i, Log("Status: FAILED - Task reported completion but final message indicates failure", 0, <<>>))

(***************************************************************************)
(* C14.  If agent.run() returns with is_done() true, the history is read   *)
(* without a fault, and the final result message, when there is one, holds *)
(* none of the negative-outcome phrases, the Result of the call has        *)
(* success = true and error null, also when the final message is absent or *)
(* is not a string.                                                        *)
(* Violated: when final_result() returns None, None.lower() raises at line *)
(* 229 and the except clause makes a failed Result.                        *)
(***************************************************************************)
C14_DoneWithoutPhrasePasses ==
    \A i \in Tasks :
        (ret[i].kind = "result" /\ SaidDone(i) /\ Session(i).fault_at = 0
            /\ ~NegativeMessage(i)) =>
            /\ ret[i].success = TRUE
            /\ ret[i].error = None

\* the secret literals that are configured
Secrets == {k \in {cfg.LT_ACCESS_KEY, cfg.GOOGLE_API_KEY} : k # <<>>}

\* the texts of the fields of one step_info
StepTexts(info) ==
    {info.action, info.action_details, info.thought, info.result, info.model_output}

\* the texts a Result holds: its error, its log entries, its step fields
ResultTexts(v) ==
    (IF v.error = None THEN {} ELSE {v.error[1]})
    \cup {v.logs[k].text : k \in 1..Len(v.logs)}
    \cup UNION {StepTexts(v.agent_steps[k]) : k \in 1..Len(v.agent_steps)}

(***************************************************************************)
(* C15.  No configured secret literal (the LambdaTest access key, the      *)
(* Google API key) occurs in a field of a Result that run_task returns:    *)
(* not in error, not in a log entry, not in a field of a step, whatever    *)
(* text the session returns.                                               *)
(* Violated: the final result message is logged as it is (lines 256, 264,  *)
(* 271) and action_details is stored as it is (lines 164, 170).            *)
(***************************************************************************)
C15_NoSecretInResult ==
    \A i \in Tasks :
        ret[i].kind = "result" =>
            \A S \in Secrets : \A t \in ResultTexts(ret[i]) : ~Contains(t, S)

(***************************************************************************)
(* C16.  When run_task catches an exception, the error of the Result and   *)
(* the ERROR line appended to its logs are the masked form of the          *)
(* exception message; a message that masking changes is neither stored as  *)
(* the error nor logged, and a configured secret in it is in neither.      *)
(***************************************************************************)
C16_CaughtMessageMasked ==
    \A i \in Tasks :
        (ret[i].kind = "result" /\ caught[i] # None) =>
            \A masked \in {mask_sensitive_data(cfg, caught[i][1])} :
                /\ ret[i].error = Some(masked)
                /\ Len(ret[i].logs) >= 2
                /\ ret[i].logs[Len(ret[i].logs) - 1] = Log("ERROR", 0, masked)
                /\ masked # caught[i][1] =>
                       \A k \in 1..Len(ret[i].logs) : ret[i].logs[k].text # caught[i][1]
                /\ \A S \in Secrets : ~Contains(masked, S)

\* the exception caught had the access key in its message; the Result holds
\* the message with the key replaced
C16_Witness ==
    \E i \in Tasks :
        /\ tpc[i] = "done"
        /\ ret[i].kind = "result"
        /\ caught[i] = Some(SecretBoom)
        /\ cfg.LT_ACCESS_KEY = LtKey
        /\ ret[i].error = Some(<<"k","="," ">> \o MaskedAccessKey)
        /\ HasLog(i, Log("ERROR", 0, <<"k","="," ">> \o MaskedAccessKey))

(***************************************************************************)
(* C17.  Masking completeness: for every configured secret literal S that  *)
(* is not empty and every text T that holds S, what                        *)
(* mask_sensitive_data(T) returns does not hold S.                         *)
(* Violated: a key that is part of a redaction token (KEY) is put back     *)
(* into the text by the token that replaces it.                            *)
(***************************************************************************)
C17_MaskingComplete ==
    (mode = "mask" /\ m_once.kind = "str") =>
        \A S \in Secrets : Contains(m_text, S) => ~Contains(m_once.text, S)

(***************************************************************************)
(* C18.  Masking idempotence: for every text x and every configuration of  *)
(* secret literals, mask_sensitive_data(mask_sensitive_data(x)) equals     *)
(* mask_sensitive_data(x).                                                 *)
(* Violated: with a key that is part of a redaction token the second pass  *)
(* replaces the key inside the tokens the first pass wrote.                *)
(***************************************************************************)
C18_MaskingIdempotent ==
    (mode = "mask" /\ m_twice.kind = "str") => m_twice.text = m_once.text

(***************************************************************************)
(* C19.  mask_sensitive_data is total: under the configuration module of   *)
(* the repository it returns a text for every text and never raises, and   *)
(* it returns an empty text unchanged.                                     *)
(* Violated: src/config.py defines no LT_ACCESS_KEY, so line 27 raises     *)
(* AttributeError for every text that is not empty.                        *)
(***************************************************************************)
C19_MaskingTotal ==
    (mode = "mask" /\ cfg = ShippedConfig(DefaultMaxParallel) /\ m_pc >= 1) =>
        /\ m_once.kind = "str"
        /\ m_text = <<>> => m_once.text = m_text

\* LambdaTest execution is asked for and a credential is missing
CredentialsMissing ==
    /\ cfg.has_lt
    /\ cfg.USE_LAMBDATEST
    /\ (cfg.LT_USERNAME = <<>> \/ cfg.LT_ACCESS_KEY = <<>>)

(***************************************************************************)
(* C20.  When LambdaTest execution is asked for and the credentials are    *)
(* missing, the failure aborts the whole run before a session is acquired: *)
(* no call returns a Result for its task and the run does not come to its  *)
(* end with a result list.                                                 *)
(* Violated: the ValueError of line 79 is raised inside the try block of   *)
(* run_task; the except clause turns it into a failed Result for the task  *)
(* and the scheduler goes on to the next task.                             *)
(***************************************************************************)
C20_MissingCredentialsAbort ==
    CredentialsMissing =>
        /\ \A i \in Tasks : ret[i].kind # "result" /\ browser[i] = "None"
        /\ results = <<>>
        /\ n >= 1 => spc # "done"

\* the tests of the generated report
Tests == report[1]

(***************************************************************************)
(* C21.  After a run, also one in which tasks failed or a call raised, the *)
(* generated report holds exactly one test for every task that was         *)
(* attempted, and every failed test carries a reason that is not empty.    *)
(* Violated: an exception raised with an empty message gives a failed test *)
(* whose error is the empty text; and an entry of the result list that is  *)
(* an exception (a call that raised, C1) is skipped by the report.         *)
(***************************************************************************)
C21_ReportCoversEveryTask ==
    report # None =>
        /\ \A i \in Started :
               Cardinality({k \in 1..Len(Tests) : Tests[k].task_number = i}) = 1
        /\ \A k \in 1..Len(Tests) :
               Tests[k].status = "failed" =>
                   (Tests[k].error # None /\ Tests[k].error # Some(<<>>) /\ Tests[k].shown)

(***************************************************************************)
(* C22.  Each call of run_task owns one browser session: the agent of a    *)
(* call is run on the session the call itself acquired and on no other, no *)
(* session has the agents of two calls run on it, one after the other or   *)
(* at the same time, and no agent is run on a session that is not open; a  *)
(* call whose session is stopped is over.  The same holds when the         *)
(* LambdaTest path falls back to a local browser.                          *)
(***************************************************************************)
C22_OneSessionPerTask ==
    /\ \A s \in 1..MaxTasks : users[s] \subseteq {s} /\ ~used_late[s]
    /\ \A i \in Tasks :
           /\ runs[i] >= 1 => (browser[i] # "None" /\ users[i] = {i})
           /\ tpc[i] = "running" => browser[i] = "open"
           /\ browser[i] = "stopped" => tpc[i] = "done"
           /\ browser[i] = "open" => tpc[i] \in {"running", "stopping"}

\* a call on the LambdaTest path fell back to a local browser, ran its agent
\* on it and stopped it
C22_Witness ==
    \E i \in Tasks :
        /\ cfg.has_lt /\ cfg.USE_LAMBDATEST
        /\ tpc[i] = "done"
        /\ \E k \in 1..Len(logs[i]) :
               logs[i][k] = Log("Falling back to local browser execution", 0, <<>>)
        /\ users[i] = {i}
        /\ runs[i] = 1
        /\ browser[i] = "stopped"

(***************************************************************************)
(* C23.  No retries: under either policy agent.run() is called at most     *)
(* once for a task, and when the run is over the result list holds exactly *)
(* one Result for every task, also for a task that failed.                 *)
(***************************************************************************)
C23_NoRetriesOneResult ==
    mode \in {"sequential", "parallel"} =>
        /\ \A i \in Tasks : runs[i] <= 1
        /\ spc \in {"done", "raised"} =>
               \A i \in Tasks :
                   Cardinality({p \in 1..Len(results) :
                                   /\ results[p].kind = "result"
                                   /\ results[p].task_number = i}) = 1

\* the call is over and caught an exception raised after agent.run() returned
RaisedAfterRun(i) ==
    /\ tpc[i] = "done"
    /\ agent_result[i] # None
    /\ ~Session(i).raises
    /\ caught[i] # None

(***************************************************************************)
(* C24.  When a call of run_task caught an exception after agent.run()     *)
(* returned, that is while a step of the history was processed or while    *)
(* the final message was interpreted, the Result it hands back has success *)
(* false and an empty step list, although steps were collected before.     *)
(***************************************************************************)
C24_NoPartialSteps ==
    \A i \in Tasks :
        RaisedAfterRun(i) =>
            /\ ret[i].kind = "result"
            /\ ~ret[i].success
            /\ ret[i].agent_steps = <<>>

\* the second step of a history raised after the first was collected
C24_Witness ==
    \E i \in Tasks :
        /\ RaisedAfterRun(i)
        /\ Session(i).fault_at = 2
        /\ Len(WalkedHistory(Session(i))) >= 2
        /\ HasLog(i, Log("Step", 1, ActionName(Session(i).history[1])))
        /\ ret[i].agent_steps = <<>>

(***************************************************************************)
(* C25.  Under the parallel policy with max_parallel zero or at least the  *)
(* number of tasks, all n calls of run_task are created together as one    *)
(* gather: there is one batch, the scheduler never pauses between batches, *)
(* and as many as n sessions can be open at once.                          *)
(***************************************************************************)
C25_AllAtOnce ==
    (mode = "parallel" /\ (max_parallel = 0 \/ max_parallel >= n)) =>
        /\ sleeps = 0
        /\ spc # "sleep"
        /\ batches <= 1
        /\ spc # "init" => (Started = Tasks /\ batches = 1)

\* with no limit, every one of several tasks has its session open at once
C25_Witness ==
    /\ mode = "parallel"
    /\ max_parallel = 0
    /\ n >= 2
    /\ OpenSessions = n
    /\ sleeps = 0

(***************************************************************************)
(* C26.  The result list of a run holds an entry for a task only when the  *)
(* whole call of run_task for it is over, the teardown of its session      *)
(* included: no entry of the list is for a task whose call is still going  *)
(* on or whose session is still open.  Entries stand at the position of    *)
(* their task.                                                             *)
(***************************************************************************)
C26_ResultAfterLifecycle ==
    \A p \in 1..Len(results) :
        /\ p \in Tasks
        /\ tpc[p] = "done"
        /\ browser[p] # "open"
        /\ results[p] = ret[p]

\* the list holds the Result of a task whose session was opened and stopped,
\* while a later task is not yet started
C26_Witness ==
    /\ Len(results) >= 1
    /\ Len(results) < n
    /\ results[1].kind = "result"
    /\ browser[1] = "stopped"
    /\ stops[1] = 1

\* the call is over and agent.run() handed back no outcome, or an outcome
\* whose is_done() is false
NotCompleted(i) ==
    /\ tpc[i] = "done"
    /\ agent_result[i] # None
    /\ ~Session(i).raises
    /\ ~IsDone(Session(i))

\* the Result of a task that was not completed: error 'Task not completed',
\* one step record for every step of the history, no exception for the run
KeptAsNotCompleted(i) ==
    /\ ret[i].kind = "result"
    /\ ~ret[i].success
    /\ ret[i].error = Some(TaskNotCompleted)
    /\ Len(ret[i].agent_steps) = Len(WalkedHistory(Session(i)))
    /\ \A k \in 1..Len(ret[i].agent_steps) :
           ret[i].agent_steps[k] = StepInfo(cfg, Session(i).history[k], k)
    /\ (mode = "sequential" /\ idx = i) => spc # "raised"

(***************************************************************************)
(* C27 as stated.  Whenever agent.run() handed back no outcome or an       *)
(* outcome with is_done() false, the Result has success false, the error   *)
(* 'Task not completed' and the step records of the whole history, and the *)
(* run is not aborted.                                                     *)
(***************************************************************************)
C27_Original ==
    \A i \in Tasks : NotCompleted(i) => KeptAsNotCompleted(i)

(***************************************************************************)
(* C27, amended.  The same, for a call in which no exception was raised    *)
(* while the history was processed.                                        *)
(***************************************************************************)
C27_NotCompleted ==
    \A i \in Tasks : (NotCompleted(i) /\ caught[i] = None) => KeptAsNotCompleted(i)

\* an outcome with is_done() false and a history of two steps: both kept
C27_Witness ==
    \E i \in Tasks :
        /\ NotCompleted(i)
        /\ caught[i] = None
        /\ ~Session(i).none
        /\ Len(ret[i].agent_steps) = 2
        /\ ret[i].error = Some(TaskNotCompleted)

\* the call is over and its try block came to the return statement
ReturnedNormally(i) ==
    /\ tpc[i] = "done"
    /\ agent_result[i] # None
    /\ caught[i] = None
    /\ ret[i].kind = "result"

IsStepLog(line) == line.tag = "Step"

(***************************************************************************)
(* C28.  When the try block of run_task comes to its return statement, the *)
(* step list of the Result has one record for every entry of the history   *)
(* that agent.run() handed back, in the order of the history, numbered     *)
(* 1, 2, ..., m; and the log holds one 'Step i' line for each of them,     *)
(* with the action name of the record, in the same order.                  *)
(***************************************************************************)
C28_StepsFollowHistory ==
    \A i \in Tasks :
        ReturnedNormally(i) =>
            \A h \in {WalkedHistory(Session(i))} :
                /\ Len(ret[i].agent_steps) = Len(h)
                /\ \A k \in 1..Len(h) :
                       /\ ret[i].agent_steps[k].step_number = k
                       /\ ret[i].agent_steps[k].action = ActionName(h[k])
                       /\ ret[i].agent_steps[k].action_details = ActionDetails(h[k])
                /\ SelectSeq(ret[i].logs, IsStepLog)
                       = [k \in 1..Len(h) |->
                              Log("Step", k, ret[i].agent_steps[k].action)]

\* a history of two different steps gave two records and two log lines
C28_Witness ==
    \E i \in Tasks :
        /\ ReturnedNormally(i)
        /\ Len(ret[i].agent_steps) = 2
        /\ ret[i].agent_steps[1].action # ret[i].agent_steps[2].action
        /\ ret[i].agent_steps[2].step_number = 2
        /\ Len(SelectSeq(ret[i].logs, IsStepLog)) = 2

\* the step carries an action payload: an action object, or a list of
\* actions that is not empty and starts with one
HasPayload(step) == step.action # None /\ FirstAction(step).kind = "obj"

\* the action name by the three rules: the stripped label of the payload,
\* else the first keyword of the result text, else 'N/A'
ClassifiedAction(step) ==
    IF HasPayload(step) THEN PayloadName(step)
    ELSE IF step.result # None THEN KeywordName(step.result[1])
    ELSE NA

(***************************************************************************)
(* C29.  The action name of every step record is the stripped type label   *)
(* of the step's action payload when it has one; otherwise the first       *)
(* keyword found in the result text, in the order Click, Scroll, Navigate, *)
(* Wait, SwitchTab, Input; otherwise, and so for a step with an empty      *)
(* action list or no action whose result names no keyword, 'N/A'.          *)
(***************************************************************************)
C29_ActionClassification ==
    \A i \in Tasks :
        ReturnedNormally(i) =>
            \A k \in 1..Len(ret[i].agent_steps) :
                ret[i].agent_steps[k].action
                    = ClassifiedAction(WalkedHistory(Session(i))[k])

\* run_tasks_sequential or run_tasks_parallel is over
RunOver == spc \in {"done", "raised"}

(***************************************************************************)
(* C30.  When every await of every call of run_task comes back, by a       *)
(* return or by an exception, run_tasks_sequential and run_tasks_parallel  *)
(* with max_parallel >= 0 are over in the end, whatever the task list.     *)
(* And nothing cuts a call short: under the sequential policy no task is   *)
(* started while the call for an earlier task is not over.                 *)
(***************************************************************************)
C30_Termination ==
    /\ [](mode = "sequential" =>
              \A i, j \in Tasks : (i < j /\ tpc[j] # "idle") => tpc[i] = "done")
    /\ <>(mode \notin {"sequential", "parallel"} \/ max_parallel < 0 \/ RunOver)

\* a run of several tasks in batches came to its end with every call over
C30_Witness ==
    /\ mode = "parallel"
    /\ max_parallel >= 1
    /\ n > max_parallel
    /\ spc = "done"
    /\ Len(results) = n
    /\ \A i \in Tasks : tpc[i] = "done"

\* the call is over, no agent was run and no browser.stop() was awaited, and
\* the call handed back a failure whose error is the masked message caught
FailedBeforeSession(i) ==
    /\ runs[i] = 0
    /\ stops[i] = 0
    /\ browser[i] = "None"
    /\ caught[i] # None
    /\ ret[i].kind = "result"
    /\ ~ret[i].success
    /\ ret[i].agent_steps = <<>>
    /\ \A masked \in {mask_sensitive_data(cfg, caught[i][1])} :
           /\ ret[i].error = Some(masked)
           /\ \A S \in Secrets : ~Contains(masked, S)

(***************************************************************************)
(* C31.  browser.stop() is awaited only on a session that was acquired.    *)
(* When the configuration asks for LambdaTest without its credentials, or  *)
(* when the call is over and never had a session because Browser(...)      *)
(* raised, no agent was run, no teardown was made, and the Result is a     *)
(* failure with the masked message of the fault.  A call that awaited      *)
(* browser.stop() had a session.                                           *)
(***************************************************************************)
C31_TeardownOnlyIfAcquired ==
    \A i \in Tasks :
        /\ (tpc[i] = "done" /\ CredentialsMissing) =>
               (FailedBeforeSession(i) /\ caught[i] = Some(CredsMessage))
        /\ (tpc[i] = "done" /\ cfg.has_lt /\ browser[i] = "None") =>
               FailedBeforeSession(i)
        /\ stops[i] >= 1 => browser[i] \in {"open", "stopped"}

\* Browser(...) raised on the fallback path with a message that holds a key:
\* no teardown, no agent, and the error is the masked message
C31_Witness ==
    \E i \in Tasks :
        /\ tpc[i] = "done"
        /\ cfg.has_lt /\ ~CredentialsMissing
        /\ FailedBeforeSession(i)
        /\ caught[i] = Some(SecretBoom)
        /\ ret[i].error # caught[i]

\* the status lines that run_task writes to the log
PassedLine == Log("Status: PASSED", 0, <<>>)
FailedLines ==
    { Log("Status: FAILED - Task not completed", 0, <<>>),
      Log("Status: FAILED - Exception occurred", 0, <<>>),
      Log("Status: FAILED - Task reported completion but final message indicates failure",
          0, <<>>) }
IsStatusLine(line) == line = PassedLine \/ line \in FailedLines

(***************************************************************************)
(* C32.  The log of every Result holds exactly one status line, which is   *)
(* its last entry; the line is 'Status: PASSED' when success is true and   *)
(* one of the 'Status: FAILED' lines when it is false.                     *)
(***************************************************************************)
C32_OneTerminalStatusLine ==
    \A i \in Tasks :
        (tpc[i] = "done" /\ ret[i].kind = "result") =>
            /\ Len(SelectSeq(ret[i].logs, IsStatusLine)) = 1
            /\ IsStatusLine(ret[i].logs[Len(ret[i].logs)])
            /\ ret[i].success <=> ret[i].logs[Len(ret[i].logs)] = PassedLine

\* the Result of call i carries the four fields of the descriptor it was given
CopiesDescriptor(i) ==
    /\ ret[i].scenario = Task(i).scenario_name
    /\ ret[i].category = Task(i).category
    /\ ret[i].priority = Task(i).priority
    /\ ret[i].prompt = Task(i).prompt_text

(***************************************************************************)
(* C33.  Every Result carries the scenario, category, priority and prompt  *)
(* of the descriptor of its task, whether the task passed, failed or       *)
(* raised, and the task list is at every moment the list that the policy   *)
(* was given, with every descriptor as it was.                             *)
(***************************************************************************)
C33_DescriptorCopied ==
    /\ tasks = [i \in 1..n |-> Task(i)]
    /\ \A i \in Tasks : ret[i].kind = "result" => CopiesDescriptor(i)
    /\ \A p \in 1..Len(results) :
           results[p].kind = "result" => results[p].prompt = Task(p).prompt_text

\* a run with a task that passed, then one whose call caught an exception
C33_Witness ==
    /\ mode \in {"sequential", "parallel"}
    /\ Len(results) >= 2
    /\ results[1].kind = "result" /\ results[1].success
    /\ results[2].kind = "result" /\ caught[2] # None
    /\ results[2].prompt = Task(2).prompt_text
    /\ results[2].prompt # results[1].prompt

(***************************************************************************)
(* C34.  For the result list that the driver summarises, the passed and    *)
(* failed counts of print_summary add up to its total, those of            *)
(* calculate_test_statistics add up to its total, the totals are the       *)
(* length of the list, and the two failed counts are equal; also when an   *)
(* entry of the list is not a Result.                                      *)
(***************************************************************************)
C34_SummaryCountsAgree ==
    summary # None =>
        /\ summary[1].printed.total = Len(results)
        /\ summary[1].stats.total_tests = Len(results)
        /\ summary[1].printed.passed + summary[1].printed.failed
               = summary[1].printed.total
        /\ summary[1].stats.passed_tests + summary[1].stats.failed_tests
               = summary[1].stats.total_tests
        /\ summary[1].printed.failed = summary[1].stats.failed_tests

CapitalParallel == <<"P","A","R","A","L","L","E","L">>

\* EXECUTION_MODE is 'parallel' in some mix of capitals and small letters
SaysParallel ==
    /\ Len(execution_mode) = Len(ParallelWord)
    /\ \A k \in 1..Len(ParallelWord) :
           execution_mode[k] \in {ParallelWord[k], CapitalParallel[k]}

(***************************************************************************)
(* C35.  The driver of a task list calls run_tasks_parallel exactly when   *)
(* EXECUTION_MODE is 'parallel' whatever the case of its letters, and      *)
(* run_tasks_sequential for every other value.  With an empty task list no *)
(* call of run_task is made, no session is acquired and no report is       *)
(* generated.                                                              *)
(***************************************************************************)
C35_PolicySelection ==
    /\ mode \in {"sequential", "parallel"} =>
           /\ mode = "parallel" <=> SaysParallel
           /\ batches > 0 => SaysParallel
           /\ (sleeps > 0 /\ batches = 0) => ~SaysParallel
    /\ n = 0 =>
           /\ \A i \in 1..MaxTasks :
                  tpc[i] = "idle" /\ browser[i] = "None" /\ runs[i] = 0
           /\ results = <<>>
           /\ report = None
           /\ summary = None

\* EXECUTION_MODE in capitals: the parallel policy has a session open
C35_Witness ==
    /\ execution_mode = CapitalParallel
    /\ mode = "parallel"
    /\ batches = 1
    /\ OpenSessions = 1

\* two texts are the same but for the case of their letters
EqualNoCase(a, b) ==
    /\ Len(a) = Len(b)
    /\ \A k \in 1..Len(a) : LowerChar(a[k]) = LowerChar(b[k])

\* a row that the reader is to hand back: five cells or more, a prompt that
\* is not blank, and an Active cell that reads 'yes' in any case
Qualifies(row) ==
    /\ Len(row) >= 5
    /\ \E k \in 1..Len(row[2]) : ~IsSpace(row[2][k])
    /\ EqualNoCase(row[5], YesWord)

\* the rows to hand back when reading from row number from, in sheet order
QualifiedFrom(from) == SelectSeq(SubSeq(sheet, from, Len(sheet)), Qualifies)

\* the list of descriptors is the list of rows, cell by cell and in order
DescribesRows(list, rows) ==
    /\ Len(list) = Len(rows)
    /\ \A k \in 1..Len(list) :
           /\ list[k].scenario_name = rows[k][1]
           /\ list[k].prompt_text = rows[k][2]
           /\ list[k].category = rows[k][3]
           /\ list[k].priority = rows[k][4]
           /\ list[k].active

(***************************************************************************)
(* C36.  With active_only true, get_all_tasks hands back, in the order of  *)
(* the sheet, exactly the rows from start_row on that have five cells or   *)
(* more, a prompt that is not blank and an Active cell equal to 'yes' but  *)
(* for case; get_tasks_by_category and get_tasks_by_priority hand back, in *)
(* the same order, those of the rows read from config.START_ROW on whose   *)
(* category or priority equals the one asked for but for case.             *)
(***************************************************************************)
C36_SheetReader ==
    (mode = "sheet" /\ query.kind # "none" /\ query.active_only) =>
        LET InCategory(row) == EqualNoCase(row[3], query.value)
            InPriority(row) == EqualNoCase(row[4], query.value)
        IN /\ n = Len(tasks)
           /\ query.kind = "all" => DescribesRows(tasks, QualifiedFrom(start_row))
           /\ query.kind = "category" =>
                  DescribesRows(tasks, SelectSeq(QualifiedFrom(START_ROW), InCategory))
           /\ query.kind = "priority" =>
                  DescribesRows(tasks, SelectSeq(QualifiedFrom(START_ROW), InPriority))

\* asked for priority 'high': two rows handed back in sheet order, one of
\* them written in capitals, and not the row above config.START_ROW
C36_Witness ==
    /\ mode = "sheet"
    /\ query.kind = "priority" /\ query.active_only
    /\ query.value = <<"h","i","g","h">>
    /\ Len(sheet) = 3
    /\ Len(tasks) = 2
    /\ tasks[1].priority = <<"H","i","g","h">>
    /\ tasks[2].priority = <<"H","I","G","H">>
    /\ Qualifies(sheet[1])

====
